---- MODULE Spec2Model ----
(***************************************************************************)
(* A model of the my-react repository: the time-sliced Didact renderer     *)
(* (src/src/build-your-own-react/createElement.js), the begin/complete     *)
(* renderer (src/unnamed/part_004 with fiber.js = src/unnamed/part_001 and *)
(* src/src/dom.js) and the event delegation layer                          *)
(* (src/src/listenToAllEvents.js).                                         *)
(*                                                                         *)
(* Objects live in heaps (sequences indexed by object identity), so that   *)
(* aliasing between the two tree generations and between fibers and host   *)
(* nodes is explicit.  NULL stands for both null and undefined references. *)
(***************************************************************************)
EXTENDS Integers, Sequences, FiniteSets, TLC

\* ------------------------------------------------------------------ bounds
\* number of render() calls explored in the Didact renderer, each of them
\* free to arrive while a pass is in progress
MaxRenders == 2
\* number of render() calls explored when each waits for the commit of the
\* pass before
MaxPasses == 3

\* ------------------------------------------------------------- primitives
NULL == 0
\* a property that is not present on an object (key in obj is false)
Absent == "<absent>"
\* the container host node, document.getElementById('root')
Container == 1

\* Property names used by the descriptions below, in insertion order.
KeyOrder == <<"id", "title", "onClick", "onMouseDown", "nodeValue">>
Keys == {KeyOrder[i] : i \in 1..Len(KeyOrder)}

\* String.prototype.startsWith
startsWith(str, prefix) ==
    Len(str) >= Len(prefix) /\ SubSeq(str, 1, Len(prefix)) = prefix

\* the case mapping of the letters that occur in the names of the model
UpperChar(c) ==
    CASE c = "c" -> "C" [] c = "d" -> "D" [] c = "m" -> "M" [] c = "k" -> "K"
      [] OTHER -> c
LowerChar(c) ==
    CASE c = "C" -> "c" [] c = "D" -> "d" [] c = "M" -> "m" [] c = "K" -> "k"
      [] OTHER -> c

\* String.prototype.toLowerCase
RECURSIVE toLowerCase(_)
toLowerCase(str) ==
    IF str = "" THEN "" ELSE LowerChar(Head(str)) \o toLowerCase(Tail(str))

\* str.substring(start), start counted from 0
substring(str, start) ==
    IF start >= Len(str) THEN "" ELSE SubSeq(str, start + 1, Len(str))

\* const isEvent = (key) => key.startsWith('on')
isEvent(key) == startsWith(key, "on")
\* key !== 'children' && !isEvent(key); children is kept apart from the
\* other props of a description (field kids), so it never is a key here
isProperty(key) == key # "children" /\ ~isEvent(key)
\* name.toLowerCase().substring(2)
EventTypeOf(name) == substring(toLowerCase(name), 2)

NoProps == [k \in Keys |-> Absent]
Props1(k, v) == [NoProps EXCEPT ![k] = v]
Props2(k1, v1, k2, v2) == [NoProps EXCEPT ![k1] = v1, ![k2] = v2]

\* ----------------------------------------------------------- descriptions
\* createElement(type, props, ...children) of the Didact renderer: children
\* is always an array; props.children is modelled by the field kids.
createElement(type, props, children) ==
    [type |-> type, props |-> props, kids |-> children]

createTextElement(text) ==
    [type |-> "TEXT_ELEMENT", props |-> Props1("nodeValue", text), kids |-> <<>>]

\* <div id='foo'><a>bar</a><b/></div>, the element of the source
ElFoo ==
    createElement("div", Props1("id", "foo"),
        << createElement("a", NoProps, << createTextElement("bar") >>),
           createElement("b", NoProps, <<>>) >>)
\* same shape, changed property, a handler added
ElBar ==
    createElement("div", Props1("id", "bar"),
        << createElement("a", Props1("onClick", "h1"), << createTextElement("bar") >>),
           createElement("b", NoProps, <<>>) >>)
\* first child replaced by another type, later sibling kept
ElSwap ==
    createElement("div", Props1("id", "foo"),
        << createElement("c", NoProps, <<>>),
           createElement("b", NoProps, <<>>) >>)
\* both children replaced by other types
ElBoth ==
    createElement("div", Props1("id", "foo"),
        << createElement("c", NoProps, <<>>),
           createElement("a", Props1("onClick", "h2"), <<>>) >>)
\* one child less, property gone, handler changed
ElOne ==
    createElement("div", NoProps,
        << createElement("a", Props2("onClick", "h2", "title", "t"), <<>>) >>)
\* no children at all
ElNone ==
    createElement("div", Props1("id", "foo"), <<>>)

Elements == {ElFoo, ElBar, ElSwap, ElBoth, ElOne, ElNone}

\* ------------------------------------------------------------ host model
\* A host node.  attrs are the properties written with dom[name] = value,
\* kids the child nodes in document order, listeners the registered
\* (event type, handler) pairs.
StyleKeys == {"color", "fontSize"}
NoStyle == [k \in StyleKeys |-> Absent]

NewDom(type) ==
    [type |-> type, attrs |-> NoProps, style |-> NoStyle, kids |-> <<>>,
     listeners |-> {}, text |-> "", internalFiber |-> NULL, current |-> NULL]

\* one call on the host adapter
HostCall(op, node, other, key, val) ==
    [op |-> op, node |-> node, other |-> other, key |-> key, val |-> val]

\* Host state threaded through the operations: the node heap, the calls
\* issued so far and whether a call has thrown.
HostState(doms, log) == [doms |-> doms, log |-> log, err |-> FALSE]

SeqRemove(s, x) == SelectSeq(s, LAMBDA y : y # x)
InSeq(s, x) == \E i \in 1..Len(s) : s[i] = x

\* document.createElement(type) / document.createTextNode('')
hostCreate(H, type) ==
    [H EXCEPT !.doms = Append(@, NewDom(type)),
              !.log = Append(@, HostCall("create", Len(H.doms) + 1, NULL, "", type))]

\* dom[name] = value
hostSet(H, d, name, value) ==
    [H EXCEPT !.doms[d].attrs[name] = value,
              !.log = Append(@, HostCall("set", d, NULL, name, value))]

\* parent.appendChild(child): the child leaves its former parent first
hostAppendChild(H, p, c) ==
    LET detached == [i \in 1..Len(H.doms) |->
                        [H.doms[i] EXCEPT !.kids = SeqRemove(@, c)]]
    IN [H EXCEPT !.doms = [detached EXCEPT ![p].kids = Append(@, c)],
                 !.log = Append(@, HostCall("appendChild", p, c, "", ""))]

\* parent.removeChild(child) throws NotFoundError when child is not a child
\* of parent
hostRemoveChild(H, p, c) ==
    IF InSeq(H.doms[p].kids, c)
    THEN [H EXCEPT !.doms[p].kids = SeqRemove(@, c),
                   !.log = Append(@, HostCall("removeChild", p, c, "", ""))]
    ELSE [H EXCEPT !.err = TRUE,
                   !.log = Append(@, HostCall("removeChild", p, c, "", "throws"))]

hostAddEventListener(H, d, type, h) ==
    [H EXCEPT !.doms[d].listeners = @ \cup {<<type, h>>},
              !.log = Append(@, HostCall("addEventListener", d, NULL, type, h))]

hostRemoveEventListener(H, d, type, h) ==
    [H EXCEPT !.doms[d].listeners = @ \ {<<type, h>>},
              !.log = Append(@, HostCall("removeEventListener", d, NULL, type, h))]

\* ================================================================ Didact
\* The renderer of src/src/build-your-own-react/createElement.js.

VARIABLES
    fibers,          \* heap of fiber objects, a fiber is its index
    doms,            \* heap of host nodes, doms[Container] is the container
    nextUnitOfWork,  \* let nextUnitOfWork
    currentRoot,     \* let currentRoot
    wipRoot,         \* let wipRoot
    deletions,       \* let deletions
    pc,              \* "idle": between callbacks, "loop": inside workLoop
    shouldYield,     \* the local of workLoop
    crashed,         \* "" or the function in which an exception was thrown
    renders,         \* number of render() calls so far
    hostLog,         \* host adapter calls issued since the last render()
    visited,         \* fibers handed to performUnitOfWork since the last render()
    hist             \* history of the passes, see Hist0

\* The state of the begin/complete renderer (src/unnamed/part_004); it uses
\* the host nodes doms and the call log hostLog as well.
VARIABLES
    bcFibers,        \* heap of FiberNode objects
    bcQueues,        \* heap of the updateQueue objects { pending }
    bcInstances,     \* heap of class component instances
    bcUpdates,       \* heap of the update objects { payload, next }
    workInProgress,  \* let workInProgress
    rootCurrent,     \* root.current
    bcPc,            \* position in the module: "off", "begin", "complete",
                     \* "commit", "done"
    invoked,         \* the handlers called by the last dispatchEvent, in order
    lastEvent,       \* the type and target of the last native event
    lastCall,        \* the last createWorkInProgress call made on its own
    bcHist           \* history of renderRootSync, see BCHist0

bcVars == <<bcFibers, bcQueues, bcInstances, bcUpdates, workInProgress, rootCurrent, bcPc,
            invoked, lastEvent, lastCall, bcHist>>

\* A fiber of the Didact renderer.  props.children is the field kids.
Fiber(type, props, kids, dom, parent, alternate, effectTag) ==
    [type |-> type, props |-> props, kids |-> kids, dom |-> dom,
     parent |-> parent, child |-> NULL, sibling |-> NULL,
     alternate |-> alternate, effectTag |-> effectTag]

\* variant: every key counts as changed
isNewAlways(prev, next, key) == TRUE

\* prev[key] !== next[key]
isNew(prev, next, key) == prev[key] # next[key]
\* variant: no key counts as gone
isGoneNever(prev, next, key) == FALSE

\* !(key in next)
isGone(prev, next, key) == next[key] = Absent

\* variant: a listener is removed only when its key is gone
isStaleListenerGoneOnly(prev, next, key) == next[key] = Absent

\* (key) => !(key in nextProps) || isNew(prevProps, nextProps)(key)
isStaleListener(prev, next, key) == next[key] = Absent \/ isNew(prev, next, key)

\* One key of one of the four passes of updateDom over the props.
updateDomKey(H, dom, prevProps, nextProps, pass, name) ==
    CASE pass = 1 ->
           \* Remove old properties
           IF prevProps[name] # Absent /\ isProperty(name)
              /\ isGone(prevProps, nextProps, name)
           THEN hostSet(H, dom, name, "") ELSE H
      [] pass = 2 ->
           \* Set new or changed properties
           IF nextProps[name] # Absent /\ isProperty(name)
              /\ isNew(prevProps, nextProps, name)
           THEN hostSet(H, dom, name, nextProps[name]) ELSE H
      [] pass = 3 ->
           \* Remove old or changed event listeners
           IF prevProps[name] # Absent /\ isEvent(name)
              /\ isStaleListener(prevProps, nextProps, name)
           THEN hostRemoveEventListener(H, dom, EventTypeOf(name), prevProps[name])
           ELSE H
      [] OTHER ->
           \* Add event listeners
           IF nextProps[name] # Absent /\ isEvent(name)
              /\ isNew(prevProps, nextProps, name)
           THEN hostAddEventListener(H, dom, EventTypeOf(name), nextProps[name])
           ELSE H

RECURSIVE updateDomFrom(_, _, _, _, _, _)
updateDomFrom(H, dom, prevProps, nextProps, pass, i) ==
    IF pass > 4 THEN H
    ELSE IF i > Len(KeyOrder)
         THEN updateDomFrom(H, dom, prevProps, nextProps, pass + 1, 1)
         ELSE updateDomFrom(
                  updateDomKey(H, dom, prevProps, nextProps, pass, KeyOrder[i]),
                  dom, prevProps, nextProps, pass, i + 1)

updateDom(H, dom, prevProps, nextProps) ==
    updateDomFrom(H, dom, prevProps, nextProps, 1, 1)

\* createDom assigns every prop except children, handlers included
RECURSIVE createDomProps(_, _, _, _)
createDomProps(H, dom, props, i) ==
    IF i > Len(KeyOrder) THEN H
    ELSE LET name == KeyOrder[i]
         IN createDomProps(
                IF props[name] # Absent THEN hostSet(H, dom, name, props[name]) ELSE H,
                dom, props, i + 1)

\* the new node is Len(result.doms)
createDom(H, fiber) ==
    LET H1 == hostCreate(H, IF fiber.type = "TEXT_ELEMENT" THEN "#text" ELSE fiber.type)
    IN createDomProps(H1, Len(H1.doms), fiber.props, 1)

\* commitWork; nothing after a thrown exception is executed
RECURSIVE commitWork(_, _, _)
commitWork(F, H, fiber) ==
    IF fiber = NULL \/ H.err THEN H
    ELSE LET fb == F[fiber]
             domParent == F[fb.parent].dom
             H1 == IF fb.effectTag = "PLACEMENT" /\ fb.dom # NULL
                   THEN hostAppendChild(H, domParent, fb.dom)
                   ELSE IF fb.effectTag = "DELETION"
                   THEN (IF fb.dom # NULL
                         THEN hostRemoveChild(H, domParent, fb.dom) ELSE H)
                   ELSE IF fb.effectTag = "UPDATE" /\ fb.dom # NULL
                   THEN updateDom(H, fb.dom, F[fb.alternate].props, fb.props)
                   ELSE H
             H2 == commitWork(F, H1, fb.child)
         IN commitWork(F, H2, fb.sibling)

\* deletions.forEach(commitWork)
RECURSIVE commitDeletions(_, _, _, _)
commitDeletions(F, H, dels, i) ==
    IF i > Len(dels) \/ H.err THEN H
    ELSE commitDeletions(F, commitWork(F, H, dels[i]), dels, i + 1)

\* The host part of commitRoot: the deletions, then the work tree.
commitRootHost(F, H, dels, root) ==
    commitWork(F, commitDeletions(F, H, dels, 1), F[root].child)

\* variant: an old fiber and an element at the same position always match
sameTypeByPosition(F, oldFiber, elements, index) ==
    oldFiber # NULL /\ index < Len(elements)

\* const sameType = oldFiber && element && element.type == oldFiber.type
sameType(F, oldFiber, elements, index) ==
    /\ oldFiber # NULL
    /\ index < Len(elements)
    /\ elements[index + 1].type = F[oldFiber].type

\* variant: the new fiber is linked in front of the previous one
linkSiblingBefore(F, prevSibling, newFiber) ==
    IF newFiber = NULL THEN F ELSE [F EXCEPT ![newFiber].sibling = prevSibling]

\* prevSibling.sibling = newFiber
linkSibling(F, prevSibling, newFiber) ==
    [F EXCEPT ![prevSibling].sibling = newFiber]

\* The loop of reconcileChildren.  R = [fibers, deletions, err]; index
\* counts from 0 as in the source.  Writing prevSibling.sibling while
\* prevSibling is null throws a TypeError, which leaves R as it then is.
RECURSIVE reconcileLoop(_, _, _, _, _, _)
reconcileLoop(R, wipFiber, elements, index, oldFiber, prevSibling) ==
    IF ~(index < Len(elements) \/ oldFiber # NULL) THEN R
    ELSE
      LET hasElement == index < Len(elements)
          element == elements[index + 1]
          same == sameType(R.fibers, oldFiber, elements, index)
          created == hasElement
          newFiber == IF created THEN Len(R.fibers) + 1 ELSE NULL
          F1 == IF same
                THEN Append(R.fibers,
                         Fiber(R.fibers[oldFiber].type, element.props, element.kids,
                               R.fibers[oldFiber].dom, wipFiber, oldFiber, "UPDATE"))
                ELSE IF hasElement
                THEN Append(R.fibers,
                         Fiber(element.type, element.props, element.kids,
                               NULL, wipFiber, NULL, "PLACEMENT"))
                ELSE R.fibers
          deleted == oldFiber # NULL /\ ~same
          F2 == IF deleted THEN [F1 EXCEPT ![oldFiber].effectTag = "DELETION"] ELSE F1
          D2 == IF deleted THEN Append(R.deletions, oldFiber) ELSE R.deletions
          nextOld == IF oldFiber # NULL THEN F2[oldFiber].sibling ELSE NULL
      IN IF index = 0
         THEN reconcileLoop(
                  [R EXCEPT !.fibers = [F2 EXCEPT ![wipFiber].child = newFiber],
                            !.deletions = D2],
                  wipFiber, elements, index + 1, nextOld, newFiber)
         ELSE IF prevSibling = NULL
         THEN [R EXCEPT !.fibers = F2, !.deletions = D2, !.err = TRUE]
         ELSE reconcileLoop(
                  [R EXCEPT !.fibers = linkSibling(F2, prevSibling, newFiber),
                            !.deletions = D2],
                  wipFiber, elements, index + 1, nextOld, newFiber)

reconcileChildren(R, wipFiber, elements) ==
    LET alt == R.fibers[wipFiber].alternate
        oldFiber == IF alt # NULL THEN R.fibers[alt].child ELSE NULL
    IN reconcileLoop(R, wipFiber, elements, 0, oldFiber, NULL)

\* the search for the next unit at the end of performUnitOfWork: the first
\* sibling found on the way up
RECURSIVE nextSiblingUp(_, _)
nextSiblingUp(F, nextFiber) ==
    IF nextFiber = NULL THEN NULL
    ELSE IF F[nextFiber].sibling # NULL THEN F[nextFiber].sibling
    ELSE nextSiblingUp(F, F[nextFiber].parent)

\* variant: the sibling is tried before the child
nextUnitSiblingFirst(F, fiber) ==
    IF F[fiber].sibling # NULL THEN F[fiber].sibling
    ELSE IF F[fiber].child # NULL THEN F[fiber].child
    ELSE nextSiblingUp(F, F[fiber].parent)

nextUnit(F, fiber) ==
    IF F[fiber].child # NULL THEN F[fiber].child ELSE nextSiblingUp(F, fiber)

\* the host part of performUnitOfWork: a host node is created for a fiber
\* that has none, and nothing is attached
\* variant: the host node is appended to the parent's as soon as the fiber
\* is processed
performUnitHostAttaching(H, F, fiber) ==
    LET H1 == IF F[fiber].dom = NULL THEN createDom(H, F[fiber]) ELSE H
        dom == IF F[fiber].dom = NULL THEN Len(H1.doms) ELSE F[fiber].dom
    IN IF F[fiber].parent # NULL
       THEN hostAppendChild(H1, F[F[fiber].parent].dom, dom) ELSE H1

performUnitHost(H, F, fiber) ==
    IF F[fiber].dom = NULL THEN createDom(H, F[fiber]) ELSE H

\* performUnitOfWork(fiber) on the state (F, H, dels); next is the value
\* returned, err tells that reconcileChildren threw
performUnitOfWork(F, H, dels, fiber) ==
    LET H1 == performUnitHost(H, F, fiber)
        F1 == IF F[fiber].dom = NULL
              THEN [F EXCEPT ![fiber].dom = Len(H1.doms)] ELSE F
        R == reconcileChildren([fibers |-> F1, deletions |-> dels, err |-> FALSE],
                               fiber, F1[fiber].kids)
    IN [fibers |-> R.fibers, host |-> H1, deletions |-> R.deletions,
        err |-> R.err,
        next |-> IF R.err THEN NULL ELSE nextUnit(R.fibers, fiber)]

\* the description "no description"
NoElement == createElement("none", NoProps, <<>>)

\* History of the passes, kept for the properties only:
\*   rendered   the description of the last render() call
\*   committed  the description of the last committed pass
\*   before     the description that was committed before that one
\*   prevRoot   currentRoot as it was before the last commit
\*   passRoot   the root fiber of the last committed pass
\*   domsAtRender  the host nodes at the last render() call
\*   commits    number of commits that ran to the end
\*   renderedRoot  the root fiber built by the last render() call
\*   yielded    workLoop has returned in the middle of the walk of the
\*              pass in progress
Hist0 ==
    [rendered |-> NoElement, committed |-> NoElement, before |-> NoElement,
     prevRoot |-> NULL, passRoot |-> NULL,
     domsAtRender |-> << NewDom("container") >>, commits |-> 0,
     renderedRoot |-> NULL, yielded |-> FALSE]

didactVars == <<fibers, doms, nextUnitOfWork, currentRoot, wipRoot, deletions,
                pc, shouldYield, crashed, renders, hostLog, visited, hist>>

\* the variables that only the Didact renderer writes
didactOnly == <<fibers, nextUnitOfWork, currentRoot, wipRoot, deletions, pc,
                shouldYield, crashed, renders, visited, hist>>

vars == <<didactVars, bcVars>>

NoEvent == [type |-> "", target |-> NULL]
NoCall == [current |-> NULL, node |-> NULL, created |-> FALSE, calls |-> 0,
           given |-> 0]

\* History of renderRootSync, kept for the properties only:
\*   begun      the fibers handed to beginWork, in call order
\*   completed  the fibers handed to completeWork, in call order
BCHist0 == [begun |-> <<>>, completed |-> <<>>]

\* the begin/complete renderer is not loaded
BCOff ==
    /\ bcFibers = <<>>
    /\ bcQueues = <<>>
    /\ bcInstances = <<>>
    /\ bcUpdates = <<>>
    /\ workInProgress = NULL
    /\ rootCurrent = NULL
    /\ bcPc = "off"
    /\ invoked = <<>>
    /\ lastEvent = NoEvent
    /\ lastCall = NoCall
    /\ bcHist = BCHist0

\* the Didact module is not loaded: its variables other than the host
DidactOff ==
    /\ fibers = <<>>
    /\ nextUnitOfWork = NULL
    /\ currentRoot = NULL
    /\ wipRoot = NULL
    /\ deletions = <<>>
    /\ pc = "off"
    /\ shouldYield = FALSE
    /\ crashed = ""
    /\ renders = 0
    /\ visited = <<>>
    /\ hist = Hist0

InitDidact ==
    /\ BCOff
    /\ fibers = <<>>
    /\ doms = << NewDom("container") >>
    /\ nextUnitOfWork = NULL
    /\ currentRoot = NULL
    /\ wipRoot = NULL
    /\ deletions = <<>>
    /\ pc = "idle"
    /\ shouldYield = FALSE
    /\ crashed = ""
    /\ renders = 0
    /\ hostLog = <<>>
    /\ visited = <<>>
    /\ hist = Hist0

\* the root fiber that render(element, container) builds
\* variant: the new root is not linked to the committed one
renderRootUnlinked(element, alternate) ==
    Fiber("undefined", NoProps, <<element>>, Container, NULL, NULL, "")

renderRoot(element, alternate) ==
    Fiber("undefined", NoProps, <<element>>, Container, NULL, alternate, "")

\* the body of render(element, container)
renderCall(element) ==
    /\ fibers' = Append(fibers, renderRoot(element, currentRoot))
    /\ wipRoot' = Len(fibers) + 1
    /\ deletions' = <<>>
    /\ nextUnitOfWork' = Len(fibers) + 1
    /\ renders' = renders + 1
    /\ hostLog' = <<>>
    /\ visited' = <<>>
    /\ hist' = [hist EXCEPT !.rendered = element, !.domsAtRender = doms,
                            !.renderedRoot = Len(fibers) + 1, !.yielded = FALSE]
    /\ UNCHANGED <<doms, currentRoot, pc, shouldYield, crashed>>
    /\ UNCHANGED bcVars

\* render(element, container), called by the application between callbacks
Render(element) ==
    /\ pc = "idle"
    /\ renders < MaxRenders
    /\ renderCall(element)

\* render(element, container), called by an application that waits for the
\* commit of the pass before it renders again
RenderAfterCommit(element) ==
    /\ pc = "idle"
    /\ renders < MaxPasses
    /\ wipRoot = NULL
    /\ renderCall(element)

\* the host environment calls workLoop(deadline); after an uncaught
\* exception the callback is not registered again
WorkLoopEnter ==
    /\ pc = "idle"
    /\ crashed = ""
    /\ pc' = "loop"
    /\ shouldYield' = FALSE
    /\ UNCHANGED <<fibers, doms, nextUnitOfWork, currentRoot, wipRoot, deletions,
                   crashed, renders, hostLog, visited, hist>>
    /\ UNCHANGED bcVars

\* one iteration of the while loop of workLoop; yield is the answer
\* deadline.timeRemaining() < 1
WorkLoopUnit(yield) ==
    /\ pc = "loop"
    /\ nextUnitOfWork # NULL
    /\ ~shouldYield
    /\ LET r == performUnitOfWork(fibers, HostState(doms, hostLog), deletions,
                                  nextUnitOfWork)
       IN /\ fibers' = r.fibers
          /\ doms' = r.host.doms
          /\ hostLog' = r.host.log
          /\ deletions' = r.deletions
          /\ visited' = Append(visited, nextUnitOfWork)
          /\ IF r.err
             THEN /\ crashed' = "reconcileChildren"
                  /\ pc' = "idle"
                  /\ UNCHANGED <<nextUnitOfWork, shouldYield>>
             ELSE /\ nextUnitOfWork' = r.next
                  /\ shouldYield' = yield
                  /\ UNCHANGED <<crashed, pc>>
    /\ UNCHANGED <<currentRoot, wipRoot, renders, hist>>
    /\ UNCHANGED bcVars

\* the end of workLoop: commitRoot() when the walk is over and a work tree
\* exists, then requestIdleCallback(workLoop)
WorkLoopExit ==
    /\ pc = "loop"
    /\ nextUnitOfWork = NULL \/ shouldYield
    /\ pc' = "idle"
    /\ shouldYield' = FALSE
    /\ IF nextUnitOfWork = NULL /\ wipRoot # NULL
       THEN LET H == commitRootHost(fibers, HostState(doms, hostLog), deletions, wipRoot)
            IN /\ doms' = H.doms
               /\ hostLog' = H.log
               /\ IF H.err
                  THEN /\ crashed' = "commitRoot"
                       /\ UNCHANGED <<currentRoot, wipRoot, hist>>
                  ELSE /\ currentRoot' = wipRoot
                       /\ wipRoot' = NULL
                       /\ hist' = [hist EXCEPT !.committed = hist.rendered,
                                               !.before = hist.committed,
                                               !.prevRoot = currentRoot,
                                               !.passRoot = wipRoot,
                                               !.commits = @ + 1,
                                               !.yielded = FALSE]
                       /\ UNCHANGED crashed
       ELSE /\ hist' = [hist EXCEPT !.yielded = @ \/ nextUnitOfWork # NULL]
            /\ UNCHANGED <<doms, hostLog, currentRoot, wipRoot, crashed>>
    /\ UNCHANGED <<fibers, nextUnitOfWork, deletions, renders, visited>>
    /\ UNCHANGED bcVars

NextDidact ==
    \/ \E element \in Elements : Render(element)
    \/ WorkLoopEnter
    \/ \E yield \in BOOLEAN : WorkLoopUnit(yield)
    \/ WorkLoopExit

SpecDidact == InitDidact /\ [][NextDidact]_vars

\* render-and-commit passes one after the other
NextPasses ==
    \/ \E element \in Elements : RenderAfterCommit(element)
    \/ WorkLoopEnter
    \/ \E yield \in BOOLEAN : WorkLoopUnit(yield)
    \/ WorkLoopExit

SpecPasses == InitDidact /\ [][NextPasses]_vars

\* ------------------------------------------------- derived views (Didact)
\* the fibers of the tree below and including fiber, in pre-order: the
\* fiber, its children from left to right, then its siblings
RECURSIVE PreOrderFrom(_, _)
PreOrderFrom(F, fiber) ==
    IF fiber = NULL THEN <<>>
    ELSE <<fiber>> \o PreOrderFrom(F, F[fiber].child)
                   \o PreOrderFrom(F, F[fiber].sibling)

SeqToSet(s) == {s[i] : i \in 1..Len(s)}

\* the host nodes attached under node d, d included
RECURSIVE Attached(_, _)
Attached(D, d) ==
    {d} \cup UNION {Attached(D, D[d].kids[i]) : i \in 1..Len(D[d].kids)}

\* what is observable of the host tree under the container
AttachedView(D) == [d \in Attached(D, Container) |-> D[d]]

\* ------------------------------------------------------------------ C1
\* C1: whatever the yields, performUnitOfWork is applied to the fibers of
\* the work tree in pre-order, each once: the fibers visited so far are a
\* prefix of the pre-order of the work tree, the cursor is the next fiber of
\* that order (null at its end), and when the pass has committed the fibers
\* visited are exactly the pre-order of the committed tree.
C1_ResumeInPreOrder ==
    /\ (wipRoot # NULL /\ crashed # "reconcileChildren") =>
          LET po == PreOrderFrom(fibers, wipRoot)
              n == Len(visited)
          IN /\ n <= Len(po)
             /\ visited = SubSeq(po, 1, n)
             /\ nextUnitOfWork = IF n < Len(po) THEN po[n + 1] ELSE NULL
    /\ (wipRoot = NULL /\ currentRoot # NULL) =>
          visited = PreOrderFrom(fibers, currentRoot)

\* a pass of five fibers that was resumed after a yield has been walked to
\* its end
C1_Witness ==
    /\ pc = "loop" /\ hist.yielded
    /\ wipRoot # NULL /\ nextUnitOfWork = NULL
    /\ Len(visited) = 5

\* ------------------------------------------------------------------ C3
\* C3: whenever workLoop has returned, the attached host tree shows none of
\* the effects of the pass in progress, or the pass is over: its root is
\* currentRoot and the commit ran to its end.
C3_CommitAtomic ==
    pc = "idle" =>
        \/ /\ wipRoot # NULL
           /\ AttachedView(doms) = AttachedView(hist.domsAtRender)
        \/ /\ wipRoot = NULL
           /\ currentRoot = hist.renderedRoot
           /\ crashed = ""

\* ------------------------------------------------------------------ C4
\* C4: after a completed pass currentRoot is the root built by that pass
\* and its alternate is the root that was current before; while wipRoot
\* stays null no step commits or touches the host.
C4_DoubleBuffer ==
    /\ [](wipRoot = NULL /\ currentRoot # NULL =>
             /\ currentRoot = hist.renderedRoot
             /\ fibers[currentRoot].alternate = hist.prevRoot)
    /\ [][wipRoot = NULL /\ wipRoot' = NULL =>
             /\ doms' = doms
             /\ hostLog' = hostLog
             /\ currentRoot' = currentRoot]_vars

\* workLoop runs again after the second completed pass
C4_Witness ==
    /\ pc = "loop" /\ wipRoot = NULL
    /\ hist.commits >= 2
    /\ fibers[currentRoot].alternate # NULL

\* ------------------------------------------------------------------ C7
\* C7: from a fiber of the current tree at most one other fiber is
\* reachable along alternate links.
C7_TwoGenerations ==
    currentRoot # NULL =>
        \A f \in SeqToSet(PreOrderFrom(fibers, currentRoot)) :
            fibers[f].alternate # NULL =>
                fibers[fibers[f].alternate].alternate = NULL

\* ------------------------------------------------------------------ C8
\* C8: when the pass just committed rendered the description that was
\* committed before it, every fiber of the new tree is tagged UPDATE,
\* nothing is queued for deletion and the pass issued no host call at all
\* (no node created, no property written, no child appended or removed, no
\* listener added or removed).
SamePassTwice ==
    /\ pc = "idle" /\ wipRoot = NULL
    /\ hist.commits >= 2
    /\ hist.committed = hist.before

C8_UnchangedRerender ==
    SamePassTwice =>
        /\ hostLog = <<>>
        /\ deletions = <<>>
        /\ \A f \in SeqToSet(PreOrderFrom(fibers, fibers[currentRoot].child)) :
               fibers[f].effectTag = "UPDATE"

C8_Witness ==
    /\ SamePassTwice
    /\ hist.committed = ElBar
    /\ Len(PreOrderFrom(fibers, currentRoot)) = 5

\* ------------------------------------------------------------------ C10
\* C10: a pass in progress is never abandoned: while a work tree exists it
\* stays the work tree until it is committed.
C10_NoCancel ==
    [][wipRoot # NULL =>
          \/ wipRoot' = wipRoot
          \/ wipRoot' = NULL /\ currentRoot' = wipRoot]_vars

\* ================================================ begin/complete renderer
\* src/unnamed/part_004 with fiber.js and react.js (src/unnamed/part_001),
\* src/src/dom.js, src/src/constants.js and src/src/listenToAllEvents.js.

\* fiber tags
FunctionComponent == 0
ClassComponent == 1
HostRoot == 3
HostComponent == 5
HostText == 6
Fragment == 7
\* let tag = null of createFiberFromElement
NoTag == -1
NoFlags == 0
NoLanes == 0

\* The value of props.children, or the value a component returns: undefined,
\* null, a string, a number, one description or an array of descriptions.
\* els holds the description(s), text the string or the digits.
NoChild == [kind |-> "undefined", text |-> "", els |-> <<>>]
ChildNull == [kind |-> "null", text |-> "", els |-> <<>>]
ChildText(t) == [kind |-> "string", text |-> t, els |-> <<>>]
ChildNumber(t) == [kind |-> "number", text |-> t, els |-> <<>>]
ChildElement(e) == [kind |-> "element", text |-> "", els |-> <<e>>]
ChildArray(es) == [kind |-> "array", text |-> "", els |-> es]

\* JavaScript truthiness of such a value
isTruthy(v) ==
    CASE v.kind \in {"undefined", "null"} -> FALSE
      [] v.kind = "string" -> v.text # ""
      [] v.kind = "number" -> v.text # "0"
      [] OTHER -> TRUE

\* variant: the value is tested for truth as well
isTextValueTruthy(v) == v.kind \in {"string", "number"} /\ isTruthy(v)

\* typeof v === 'string' || typeof v === 'number'
isTextValue(v) == v.kind \in {"string", "number"}

\* A props value: an object with ordinary keys (attrs), an optional style
\* object and children; or null, undefined, or the string of a text fiber.
ReactProps(attrs, hasStyle, style, children) ==
    [kind |-> "object", text |-> "", attrs |-> attrs, hasStyle |-> hasStyle,
     style |-> style, children |-> children]
PropsNull ==
    [kind |-> "null", text |-> "", attrs |-> NoProps, hasStyle |-> FALSE,
     style |-> NoStyle, children |-> NoChild]
PropsUndefined == [PropsNull EXCEPT !.kind = "undefined"]
PropsText(t) == [PropsNull EXCEPT !.kind = "string", !.text = t]

\* a description { type, key, ref, props }
ReactElement(type, key, props) ==
    [type |-> type, key |-> key, ref |-> "null", props |-> props]

Style1(k, v) == [NoStyle EXCEPT ![k] = v]

\* ---- the components of the model
\* <h1 style={{color:'green'}}>Function Component</h1>
ElFunctionResult ==
    ReactElement("h1", "null",
        ReactProps(NoProps, TRUE, Style1("color", "green"),
                   ChildText("Function Component")))
\* the element AppClassComponent renders: a div with a click handler around
\* an h2 with a click handler
ElClassResult ==
    ReactElement("div", "null",
        ReactProps(Props1("onClick", "divClicked"), TRUE, Style1("color", "blue"),
            ChildElement(
                ReactElement("h2", "null",
                    ReactProps(Props1("onClick", "h2Clicked"), FALSE, NoStyle,
                               ChildText("h2"))))))
\* a component between two host nodes: <span onClick onMouseDown>7</span>
ElInnerResult ==
    ReactElement("span", "null",
        ReactProps(Props2("onClick", "spanClicked", "onMouseDown", "spanDown"),
                   FALSE, NoStyle, ChildNumber("7")))

\* a component that renders only a component that renders nothing: <Empty/>
ElShellResult ==
    ReactElement("Empty", "null", ReactProps(NoProps, FALSE, NoStyle, NoChild))

FunctionNames == {"AppFunctionComponent", "Inner", "Empty", "Shell"}
ClassNames == {"AppClassComponent"}

\* typeof type
typeofType(type) ==
    IF type \in FunctionNames \cup ClassNames THEN "function"
    ELSE IF type \in {"undefined", "null"} THEN type
    ELSE "string"
\* type.isReactComponent
isReactComponent(type) == type \in ClassNames

\* type(props) of a function component
callFunctionComponent(type, props) ==
    CASE type = "AppFunctionComponent" -> ChildElement(ElFunctionResult)
      [] type = "Inner" -> ChildElement(ElInnerResult)
      [] type = "Shell" -> ChildElement(ElShellResult)
      [] OTHER -> ChildNull

\* instance.render() of a class component
renderInstance(instance) == ChildElement(ElClassResult)

\* ---- fiber.js
\* new FiberNode(tag, pendingProps, key); queue is the fresh object
\* { pending: null } of the node.  stateNode is [kind, id]: null, the root
\* object, a host node or a component instance.
NoStateNode == [kind |-> "null", id |-> NULL]
FiberNode(tag, pendingProps, key, queue) ==
    [tag |-> tag, pendingProps |-> pendingProps, key |-> key, type |-> "null",
     return |-> NULL, child |-> NULL, sibling |-> NULL,
     memoizedState |-> NULL, memoizedProps |-> PropsNull, updateQueue |-> queue,
     flags |-> NoFlags, subtreeFlags |-> NoFlags, lanes |-> NoLanes,
     childLanes |-> NoLanes, stateNode |-> NoStateNode, alternate |-> NULL]

\* B = [fibers, queues, instances, updates] is the object heap of the
\* renderer.
\* createFiber: the new fiber is Len(result.fibers)
createFiber(B, tag, pendingProps, key) ==
    [B EXCEPT !.queues = Append(@, [pending |-> NULL]),
              !.fibers = Append(@, FiberNode(tag, pendingProps, key,
                                             Len(B.queues) + 1))]

\* variant: what is neither a host type nor a component is a Fragment
tagOfTypeOrFragment(type) ==
    IF typeofType(type) = "string" THEN HostComponent
    ELSE IF typeofType(type) = "function"
         THEN (IF isReactComponent(type) THEN ClassComponent ELSE FunctionComponent)
         ELSE Fragment

\* the tag createFiberFromElement computes from the type
tagOfType(type) ==
    IF typeofType(type) = "string" THEN HostComponent
    ELSE IF typeofType(type) = "function"
         THEN (IF isReactComponent(type) THEN ClassComponent ELSE FunctionComponent)
         ELSE NoTag

\* variant: an array of two descriptions gets a fiber for each of them, the
\* first one created last and linked to the second as its sibling
createFiberFromElementOrArray(B, element) ==
    LET isEl == element.kind = "element"
        isPair == element.kind = "array" /\ Len(element.els) = 2
        first == IF isEl \/ isPair THEN element.els[1]
                 ELSE ReactElement("undefined", "undefined", PropsUndefined)
        B0 == IF isPair
              THEN LET C == createFiber(B, tagOfType(element.els[2].type),
                                        element.els[2].props, element.els[2].key)
                   IN [C EXCEPT !.fibers[Len(C.fibers)].type = element.els[2].type]
              ELSE B
        B1 == createFiber(B0, tagOfType(first.type), first.props, first.key)
    IN [B1 EXCEPT !.fibers[Len(B1.fibers)].type = first.type,
                  !.fibers[Len(B1.fibers)].sibling =
                      IF isPair THEN Len(B0.fibers) ELSE NULL]

\* createFiberFromElement(element); element is what beginWork passes, which
\* need not be a description: of an array or a string, type, props and key
\* are undefined
createFiberFromElement(B, element) ==
    LET isEl == element.kind = "element"
        type == IF isEl THEN element.els[1].type ELSE "undefined"
        props == IF isEl THEN element.els[1].props ELSE PropsUndefined
        key == IF isEl THEN element.els[1].key ELSE "undefined"
        B1 == createFiber(B, tagOfType(type), props, key)
    IN [B1 EXCEPT !.fibers[Len(B1.fibers)].type = type]

createHostRootFiber(B) == createFiber(B, HostRoot, PropsNull, "null")

\* variant: the new fiber is not recorded as the alternate of current
createWorkInProgressOneWay(B, current, pendingProps) ==
    LET alt == B.fibers[current].alternate
        B1 == IF alt = NULL
              THEN LET C == createFiber(B, B.fibers[current].tag, pendingProps,
                                        B.fibers[current].key)
                       n == Len(C.fibers)
                   IN [C EXCEPT !.fibers[n].stateNode = B.fibers[current].stateNode,
                                !.fibers[n].alternate = current]
              ELSE [B EXCEPT !.fibers[alt].pendingProps = pendingProps]
        w == IF alt = NULL THEN Len(B1.fibers) ELSE alt
        cur == B1.fibers[current]
    IN [heap |-> [B1 EXCEPT !.fibers[w].type = cur.type,
                            !.fibers[w].child = cur.child,
                            !.fibers[w].updateQueue = cur.updateQueue,
                            !.fibers[w].lanes = cur.lanes,
                            !.fibers[w].childLanes = cur.childLanes],
        node |-> w]

\* createWorkInProgress(current, pendingProps); node is the fiber returned
createWorkInProgress(B, current, pendingProps) ==
    LET alt == B.fibers[current].alternate
        B1 == IF alt = NULL
              THEN LET C == createFiber(B, B.fibers[current].tag, pendingProps,
                                        B.fibers[current].key)
                       n == Len(C.fibers)
                   IN [C EXCEPT !.fibers[n].stateNode = B.fibers[current].stateNode,
                                !.fibers[n].alternate = current,
                                !.fibers[current].alternate = n]
              ELSE [B EXCEPT !.fibers[alt].pendingProps = pendingProps]
        w == IF alt = NULL THEN Len(B1.fibers) ELSE alt
        cur == B1.fibers[current]
    IN [heap |-> [B1 EXCEPT !.fibers[w].type = cur.type,
                            !.fibers[w].child = cur.child,
                            !.fibers[w].updateQueue = cur.updateQueue,
                            !.fibers[w].lanes = cur.lanes,
                            !.fibers[w].childLanes = cur.childLanes],
        node |-> w]

\* ---- dom.js
\* createElement(workInProgress) of dom.js: document.createElement(type)
domCreateElement(H, fiber) == hostCreate(H, fiber.type)

\* where appendChildren goes after it has appended childFiber: the next
\* sibling on the way up, NULL when the way up reaches workInProgress
RECURSIVE appendChildrenUp(_, _, _)
appendChildrenUp(F, wip, childFiber) ==
    IF F[childFiber].sibling # NULL THEN F[childFiber].sibling
    ELSE IF F[childFiber].return = wip \/ F[childFiber].return = NULL THEN NULL
    ELSE appendChildrenUp(F, wip, F[childFiber].return)

\* variant: a function component is taken for a fiber with a host node
isHostFiberOrFunction(fb) ==
    fb.tag = HostComponent \/ fb.tag = HostText \/ fb.tag = FunctionComponent

\* childFiber.tag === HostComponent || childFiber.tag === HostText
isHostFiber(fb) == fb.tag = HostComponent \/ fb.tag = HostText

\* the while loop of appendChildren(dom, workInProgress)
RECURSIVE appendChildrenFrom(_, _, _, _, _)
appendChildrenFrom(H, F, dom, wip, childFiber) ==
    IF childFiber = NULL \/ H.err THEN H
    ELSE IF isHostFiber(F[childFiber])
    THEN LET H1 == IF F[childFiber].stateNode.kind = "dom"
                   THEN hostAppendChild(H, dom, F[childFiber].stateNode.id)
                   ELSE [H EXCEPT !.err = TRUE]
         IN IF childFiber = wip THEN H1
            ELSE appendChildrenFrom(H1, F, dom, wip,
                                    appendChildrenUp(F, wip, childFiber))
    ELSE appendChildrenFrom(H, F, dom, wip, F[childFiber].child)

\* variant: only a host fiber that is the child itself is appended, the walk
\* does not go below a component
appendChildrenDirect(H, F, dom, wip) ==
    IF F[wip].child # NULL /\ isHostFiber(F[F[wip].child])
    THEN hostAppendChild(H, dom, F[F[wip].child].stateNode.id)
    ELSE H

\* appendChildren(dom, workInProgress)
appendChildren(H, F, dom, wip) ==
    appendChildrenFrom(H, F, dom, wip, F[wip].child)

\* dom.style[sk] = sv
hostSetStyle(H, d, sk, sv) ==
    [H EXCEPT !.doms[d].style[sk] = sv,
              !.log = Append(@, HostCall("style", d, NULL, sk, sv))]

\* dom.textContent = v replaces the children of the node by the text
hostSetText(H, d, v) ==
    [H EXCEPT !.doms[d].text = v, !.doms[d].kids = <<>>,
              !.log = Append(@, HostCall("textContent", d, NULL, "", v))]

\* variant: a handler prop is registered as a listener of the node
setInitialPropListening(H, dom, k, v) ==
    IF startsWith(k, "on") THEN hostAddEventListener(H, dom, EventTypeOf(k), v)
    ELSE hostSet(H, dom, k, v)

\* dom[k] = v, for a handler prop as for any other key
setInitialProp(H, dom, k, v) == hostSet(H, dom, k, v)

\* the entries of nextProps other than style and children
RECURSIVE setInitialAttrs(_, _, _, _)
setInitialAttrs(H, dom, attrs, i) ==
    IF i > Len(KeyOrder) THEN H
    ELSE LET k == KeyOrder[i]
         IN setInitialAttrs(
                IF attrs[k] # Absent THEN setInitialProp(H, dom, k, attrs[k]) ELSE H,
                dom, attrs, i + 1)

StyleOrder == <<"color", "fontSize">>

RECURSIVE setInitialStyle(_, _, _, _)
setInitialStyle(H, dom, style, i) ==
    IF i > Len(StyleOrder) THEN H
    ELSE LET sk == StyleOrder[i]
         IN setInitialStyle(
                IF style[sk] # Absent THEN hostSetStyle(H, dom, sk, style[sk]) ELSE H,
                dom, style, i + 1)

\* setInitialProps(dom, nextProps); Object.entries of null or undefined
\* throws
setInitialProps(H, dom, nextProps) ==
    IF nextProps.kind # "object" THEN [H EXCEPT !.err = TRUE]
    ELSE LET H1 == IF nextProps.hasStyle
                   THEN setInitialStyle(H, dom, nextProps.style, 1) ELSE H
             H2 == setInitialAttrs(H1, dom, nextProps.attrs, 1)
         IN IF isTextValue(nextProps.children)
            THEN hostSetText(H2, dom, nextProps.children.text)
            ELSE H2

\* ---- part_004
StateKeys == {"count", "name"}
NoState == [k \in StateKeys |-> Absent]
\* { ...a, ...b }
spread(a, b) == [k \in StateKeys |-> IF b[k] # Absent THEN b[k] ELSE a[k]]

\* the do-while of the class component branch: the updates whose payload it
\* merges, in the order of the merges
RECURSIVE foldOrder(_, _, _)
foldOrder(U, next, pendingState) ==
    IF next = pendingState \/ U[next].next = NULL THEN <<next>>
    ELSE <<next>> \o foldOrder(U, U[next].next, pendingState)

\* variant: a key that the state already holds is not overwritten
RECURSIVE foldUpdatesKeeping(_, _, _, _)
foldUpdatesKeeping(U, newState, next, pendingState) ==
    LET merged == spread(U[next].payload, newState)
    IN IF next = pendingState \/ U[next].next = NULL THEN merged
       ELSE foldUpdatesKeeping(U, merged, U[next].next, pendingState)

\* the do-while of the class component branch: newState after the updates
\* from next up to pendingState have been merged
RECURSIVE foldUpdates(_, _, _, _)
foldUpdates(U, newState, next, pendingState) ==
    LET merged == spread(newState, U[next].payload)
    IN IF next = pendingState \/ U[next].next = NULL THEN merged
       ELSE foldUpdates(U, merged, U[next].next, pendingState)

\* beginWork(current, workInProgress) on the heap B: the new heap, the
\* value returned (NULL for null and undefined) and whether it threw
beginWork(B, current, wip) ==
    LET fb == B.fibers[wip]
        known == fb.tag \in {HostRoot, HostComponent, HostText,
                             FunctionComponent, ClassComponent}
        firstClass == fb.tag = ClassComponent /\ current = NULL
        againClass == fb.tag = ClassComponent /\ current # NULL
        \* new workInProgress.type(pendingProps), bound to the fiber
        B1 == IF firstClass
              THEN [B EXCEPT
                      !.instances = Append(@, [type |-> fb.type, state |-> NoState,
                                               reactFiber |-> wip]),
                      !.fibers[wip].stateNode =
                          [kind |-> "instance", id |-> Len(B.instances) + 1]]
              ELSE B
        inst == B1.fibers[wip].stateNode.id
        pendingState == IF againClass
                        THEN B.queues[B.fibers[current].updateQueue].pending
                        ELSE NULL
        throws == \/ againClass /\ pendingState = NULL
                  \/ againClass /\ fb.stateNode.kind # "instance"
                  \/ fb.tag \in {HostRoot, HostComponent}
                     /\ fb.pendingProps.kind # "object"
        B2 == IF againClass /\ ~throws
              THEN [B1 EXCEPT !.instances[inst].state =
                        foldUpdates(B.updates, B.instances[inst].state,
                                    B.updates[pendingState].next, pendingState)]
              ELSE B1
        nextChildren ==
            CASE fb.tag = HostRoot -> fb.pendingProps.children
              [] fb.tag = HostComponent ->
                    IF isTextValue(fb.pendingProps.children)
                    THEN ChildNull ELSE fb.pendingProps.children
              [] fb.tag = FunctionComponent ->
                    callFunctionComponent(fb.type, fb.pendingProps)
              [] fb.tag = ClassComponent -> renderInstance(inst)
              [] OTHER -> ChildNull
        B3 == createFiberFromElement(B2, nextChildren)
        childFiber == Len(B3.fibers)
    IN IF throws THEN [heap |-> B, next |-> NULL, err |-> TRUE]
       ELSE IF ~known THEN [heap |-> B, next |-> NULL, err |-> FALSE]
       ELSE IF ~isTruthy(nextChildren)
       THEN [heap |-> [B2 EXCEPT !.fibers[wip].child = NULL],
             next |-> NULL, err |-> FALSE]
       ELSE [heap |-> [B3 EXCEPT !.fibers[childFiber].return = wip,
                                 !.fibers[wip].child = childFiber],
             next |-> childFiber, err |-> FALSE]

\* variant: the host node is made in the default case of the switch, for
\* every tag that has no case of its own
isHostComponentCaseByDefault(fb) ==
    fb.tag \notin {HostRoot, FunctionComponent, ClassComponent, Fragment, HostText}

\* case HostComponent: of the switch of completeWork
isHostComponentCase(fb) == fb.tag = HostComponent

\* completeWork(workInProgress) on the heap B and the host H
completeWork(B, H, wip) ==
    LET fb == B.fibers[wip]
    IN IF isHostComponentCase(fb)
       THEN LET H1 == domCreateElement(H, fb)
                instance == Len(H1.doms)
                H2 == appendChildren(H1, B.fibers, instance, wip)
                H3 == [H2 EXCEPT !.doms[instance].internalFiber = wip]
                H4 == setInitialProps(H3, instance, fb.pendingProps)
            IN [heap |-> [B EXCEPT !.fibers[wip].stateNode =
                                      [kind |-> "dom", id |-> instance]],
                host |-> H4]
       ELSE IF fb.tag = HostText
       THEN LET H1 == hostCreate(H, "#text")
                node == Len(H1.doms)
            IN [heap |-> [B EXCEPT !.fibers[wip].stateNode =
                                      [kind |-> "dom", id |-> node]],
                host |-> [H1 EXCEPT !.doms[node].text = fb.pendingProps.text]]
       ELSE [heap |-> B, host |-> H]

\* the loop of commitRoot: the first HostComponent with a host node on the
\* child chain of finishedWork is appended to the container
RECURSIVE commitRootFrom(_, _, _)
commitRootFrom(H, F, childFiber) ==
    IF childFiber = NULL THEN H
    ELSE IF F[childFiber].tag = HostComponent
            /\ F[childFiber].stateNode.kind # "null"
    THEN hostAppendChild(H, Container, F[childFiber].stateNode.id)
    ELSE commitRootFrom(H, F, F[childFiber].child)

\* ---- listenToAllEvents.js
allEvents == <<"click", "mousedown", "mouseup", "dblclick">>

\* container.addEventListener(eventName, dispatchEvent, false) for each
RECURSIVE listenToAllEventsFrom(_, _, _)
listenToAllEventsFrom(H, container, i) ==
    IF i > Len(allEvents) THEN H
    ELSE listenToAllEventsFrom(
             hostAddEventListener(H, container, allEvents[i], "dispatchEvent"),
             container, i + 1)

listenToAllEvents(H, container) == listenToAllEventsFrom(H, container, 1)

\* `on` + type[0].toUpperCase() + type.slice(1)
reactEventNameOf(type) == "on" \o UpperChar(Head(type)) \o Tail(type)

\* memoizedProps[reactEventName]
propOf(props, name) ==
    IF props.kind = "object" /\ name \in DOMAIN props.attrs
    THEN props.attrs[name] ELSE Absent

\* variant: the handlers are collected from the root down to the target
RECURSIVE accumulateListenersRootFirst(_, _, _)
accumulateListenersRootFirst(F, reactEventName, currentFiber) ==
    IF currentFiber = NULL THEN <<>>
    ELSE LET fb == F[currentFiber]
             listener == propOf(fb.memoizedProps, reactEventName)
             here == IF /\ fb.tag = HostComponent
                        /\ fb.stateNode.kind # "null"
                        /\ listener # Absent
                     THEN <<listener>> ELSE <<>>
         IN accumulateListenersRootFirst(F, reactEventName, fb.return) \o here

\* accumulateListeners(reactEventName, fiber)
RECURSIVE accumulateListeners(_, _, _)
accumulateListeners(F, reactEventName, currentFiber) ==
    IF currentFiber = NULL THEN <<>>
    ELSE LET fb == F[currentFiber]
             listener == propOf(fb.memoizedProps, reactEventName)
             here == IF /\ fb.tag = HostComponent
                        /\ fb.stateNode.kind # "null"
                        /\ listener # Absent
                     THEN <<listener>> ELSE <<>>
         IN here \o accumulateListeners(F, reactEventName, fb.return)

\* ---- the module part_004, step by step
\* the descriptions given to the root as props.children
HostDescription ==
    ReactElement("h1", "null",
        ReactProps(NoProps, TRUE, Style1("color", "orange"),
            ChildElement(
                ReactElement("span", "null",
                    ReactProps(NoProps, FALSE, NoStyle,
                               ChildText("Host Component"))))))
\* a host node with handlers around a component with a handler prop
NestedDescription ==
    ReactElement("div", "null",
        ReactProps(Props2("onClick", "outerClicked", "onMouseDown", "outerDown"),
            FALSE, NoStyle,
            ChildElement(
                ReactElement("Inner", "null",
                    ReactProps(Props1("onClick", "innerProp"), FALSE, NoStyle,
                               NoChild)))))
\* three nested host nodes with handlers
DeepDescription ==
    ReactElement("section", "null",
        ReactProps(Props1("onClick", "sectionClicked"), FALSE, NoStyle,
            ChildElement(
                ReactElement("div", "null",
                    ReactProps(Props1("onMouseDown", "divDown"), FALSE, NoStyle,
                        ChildElement(
                            ReactElement("p", "null",
                                ReactProps(Props1("onClick", "pClicked"), FALSE,
                                           NoStyle, ChildNumber("7")))))))))
\* host nodes whose only child is a falsy text value: <p><em>{0}</em></p>
\* and <i>{''}</i>
ZeroDescription ==
    ReactElement("p", "null",
        ReactProps(NoProps, FALSE, NoStyle,
            ChildElement(
                ReactElement("em", "null",
                    ReactProps(NoProps, FALSE, NoStyle, ChildNumber("0"))))))
EmptyTextDescription ==
    ReactElement("i", "null",
        ReactProps(Props1("title", "t"), FALSE, NoStyle, ChildText("")))
\* host nodes with nothing but components below: <nav><Empty/></nav> and
\* <div id="box"><Shell/></div>
EmptyHostDescription ==
    ReactElement("nav", "null",
        ReactProps(NoProps, FALSE, NoStyle,
            ChildElement(
                ReactElement("Empty", "null",
                    ReactProps(NoProps, FALSE, NoStyle, NoChild)))))
ShellHostDescription ==
    ReactElement("div", "null",
        ReactProps(Props1("id", "box"), FALSE, NoStyle,
            ChildElement(
                ReactElement("Shell", "null",
                    ReactProps(NoProps, FALSE, NoStyle, NoChild)))))
\* a host node with two children
ArrayDescription ==
    ReactElement("ul", "null",
        ReactProps(Props1("id", "list"), FALSE, NoStyle,
            ChildArray(<<
                ReactElement("li", "null",
                    ReactProps(NoProps, FALSE, NoStyle, ChildText("one"))),
                ReactElement("li", "null",
                    ReactProps(NoProps, FALSE, NoStyle, ChildText("two"))) >>)))

RootInputs ==
    { ChildElement(ReactElement("AppClassComponent", "null",
                       ReactProps(NoProps, FALSE, NoStyle, NoChild))),
      ChildElement(ReactElement("AppFunctionComponent", "null",
                       ReactProps(NoProps, FALSE, NoStyle, NoChild))),
      ChildElement(ReactElement("Empty", "null",
                       ReactProps(NoProps, FALSE, NoStyle, NoChild))),
      ChildElement(HostDescription),
      ChildElement(NestedDescription),
      ChildElement(DeepDescription),
      ChildElement(ZeroDescription),
      ChildElement(EmptyTextDescription),
      ChildElement(EmptyHostDescription),
      ChildElement(ShellHostDescription),
      ChildElement(ArrayDescription) }

EmptyHeap == [fibers |-> <<>>, queues |-> <<>>, instances |-> <<>>, updates |-> <<>>]
RootObject == [kind |-> "root", id |-> NULL]

\* the heap after lines 48 to 65: the host root fiber, bound to the root
\* object, and its work-in-progress twin carrying the description
rootSetup(children) ==
    LET B0 == createHostRootFiber(EmptyHeap)
        hostRootFiber == Len(B0.fibers)
        B1 == [B0 EXCEPT !.fibers[hostRootFiber].stateNode = RootObject]
    IN createWorkInProgress(B1, hostRootFiber,
                            ReactProps(NoProps, FALSE, NoStyle, children))

\* the module is loaded up to listenToAllEvents(root.container); render()
\* is about to run
InitBC ==
    /\ DidactOff
    /\ \E children \in RootInputs :
          LET r == rootSetup(children)
              H == listenToAllEvents(HostState(<< NewDom("container") >>, <<>>),
                                     Container)
          IN /\ bcFibers = r.heap.fibers
             /\ bcQueues = r.heap.queues
             /\ bcInstances = r.heap.instances
             /\ bcUpdates = r.heap.updates
             /\ workInProgress = r.node
             /\ rootCurrent = r.heap.fibers[r.node].alternate
             /\ doms = H.doms
             /\ hostLog = H.log
    /\ bcPc = "begin"
    /\ invoked = <<>>
    /\ lastEvent = NoEvent
    /\ lastCall = NoCall
    /\ bcHist = BCHist0

Heap == [fibers |-> bcFibers, queues |-> bcQueues, instances |-> bcInstances,
         updates |-> bcUpdates]

\* renderRootSync, top-down: beginWork on the cursor, then
\* memoizedProps = pendingProps; the walk goes to the child, or turns to
\* the unwind when there is none
BeginStep ==
    /\ bcPc = "begin"
    /\ workInProgress # NULL
    /\ LET r == beginWork(Heap, bcFibers[workInProgress].alternate, workInProgress)
           F == [r.heap.fibers EXCEPT ![workInProgress].memoizedProps =
                                          r.heap.fibers[workInProgress].pendingProps]
       IN IF r.err
          THEN /\ bcPc' = "crashed"
               /\ UNCHANGED <<bcFibers, bcQueues, bcInstances, bcUpdates,
                              workInProgress>>
          ELSE /\ bcFibers' = F
               /\ bcQueues' = r.heap.queues
               /\ bcInstances' = r.heap.instances
               /\ bcUpdates' = r.heap.updates
               /\ IF r.next # NULL
                  THEN workInProgress' = r.next /\ bcPc' = "begin"
                  ELSE UNCHANGED workInProgress /\ bcPc' = "complete"
    /\ bcHist' = [bcHist EXCEPT !.begun = Append(@, workInProgress)]
    /\ UNCHANGED <<rootCurrent, invoked, lastEvent, doms, hostLog>>
    /\ UNCHANGED <<lastCall, didactOnly>>

\* renderRootSync, after completeWork(workInProgress) on the fiber fb: the
\* cursor moves to the sibling and the top-down walk resumes there, or it
\* moves to the parent, which is completed next; a null cursor ends the loop
\* variant: the unwind leaves the loop at the first fiber without a sibling
unwindStepToEnd(fb) ==
    IF fb.sibling # NULL
    THEN [cursor |-> fb.sibling, pc |-> "begin"]
    ELSE [cursor |-> NULL, pc |-> "commit"]

unwindStep(fb) ==
    IF fb.sibling # NULL
    THEN [cursor |-> fb.sibling, pc |-> "begin"]
    ELSE [cursor |-> fb.return,
          pc |-> IF fb.return = NULL THEN "commit" ELSE "complete"]

\* renderRootSync, one round of the do-while: completeWork on the cursor,
\* then on to the sibling (top-down again) or up to the parent; the render
\* phase is over when the cursor becomes null
CompleteStep ==
    /\ bcPc = "complete"
    /\ workInProgress # NULL
    /\ LET r == completeWork(Heap, HostState(doms, hostLog), workInProgress)
           fb == r.heap.fibers[workInProgress]
       IN IF r.host.err
          THEN /\ bcPc' = "crashed"
               /\ UNCHANGED <<bcFibers, workInProgress>>
               /\ doms' = r.host.doms
               /\ hostLog' = r.host.log
          ELSE /\ bcFibers' = r.heap.fibers
               /\ doms' = r.host.doms
               /\ hostLog' = r.host.log
               /\ workInProgress' = unwindStep(fb).cursor
               /\ bcPc' = unwindStep(fb).pc
    /\ bcHist' = [bcHist EXCEPT !.completed = Append(@, workInProgress)]
    /\ UNCHANGED <<bcQueues, bcInstances, bcUpdates, rootCurrent, invoked,
                   lastEvent>>
    /\ UNCHANGED <<lastCall, didactOnly>>

\* commitRoot() of part_004
CommitRoot ==
    /\ bcPc = "commit"
    /\ LET finishedWork == bcFibers[rootCurrent].alternate
           H == commitRootFrom(HostState(doms, hostLog), bcFibers,
                               bcFibers[finishedWork].child)
       IN /\ doms' = [H.doms EXCEPT ![Container].current = finishedWork]
          /\ hostLog' = H.log
    /\ bcPc' = "done"
    /\ UNCHANGED <<bcFibers, bcQueues, bcInstances, bcUpdates, workInProgress,
                   rootCurrent, invoked, lastEvent, bcHist>>
    /\ UNCHANGED <<lastCall, didactOnly>>

\* A native event of the given type on an attached host node reaches the
\* listener of the container: dispatchEvent(event) with event.target = target.
DispatchEvent(type, target) ==
    /\ bcPc = "done"
    /\ <<type, "dispatchEvent">> \in doms[Container].listeners
    /\ target \in Attached(doms, Container)
    /\ invoked' = accumulateListeners(bcFibers, reactEventNameOf(type),
                                      doms[target].internalFiber)
    /\ lastEvent' = [type |-> type, target |-> target]
    /\ UNCHANGED <<bcFibers, bcQueues, bcInstances, bcUpdates, workInProgress,
                   rootCurrent, bcPc, doms, hostLog, bcHist>>
    /\ UNCHANGED <<lastCall, didactOnly>>

EventTypes == {allEvents[i] : i \in 1..Len(allEvents)}

NextBC ==
    \/ BeginStep
    \/ CompleteStep
    \/ CommitRoot
    \/ \E type \in EventTypes : \E target \in 1..Len(doms) :
           DispatchEvent(type, target)

SpecBC == InitBC /\ [][NextBC]_vars

\* both renderers: one of the two modules is loaded
InitRenderers == InitDidact \/ InitBC

NextRenderers ==
    \/ \E element \in Elements : Render(element)
    \/ WorkLoopEnter
    \/ \E yield \in BOOLEAN : WorkLoopUnit(yield)
    \/ WorkLoopExit
    \/ BeginStep
    \/ CompleteStep
    \/ CommitRoot
    \/ \E type \in EventTypes : \E target \in 1..Len(doms) :
           DispatchEvent(type, target)

SpecRenderers == InitRenderers /\ [][NextRenderers]_vars

\* ------------------------------------------------------------------ C2
\* C2: while the cursor of a renderer is set (the walk of the work tree is
\* not over), no step changes anything of the host tree attached under the
\* container: the render phase creates and fills detached nodes only.
C2_RenderPhaseDetached ==
    [][(nextUnitOfWork # NULL \/ workInProgress # NULL) =>
          AttachedView(doms') = AttachedView(doms)]_vars

\* the Didact renderer has created host nodes in the walk of a pass that
\* follows a commit, while the committed nodes are attached
C2_Witness ==
    /\ pc = "loop" /\ nextUnitOfWork # NULL
    /\ hist.commits >= 1
    /\ Len(doms[Container].kids) > 0
    /\ \E i \in 1..Len(hostLog) : hostLog[i].op = "set"

\* the begin/complete renderer has built a host node with a child during
\* its walk
C2_WitnessBC ==
    /\ bcPc = "complete" /\ workInProgress # NULL
    /\ \E d \in 1..Len(doms) : d # Container /\ Len(doms[d].kids) > 0

\* ------------------------------------------------------------------ C5
\* the root fiber that renderRootSync has walked
FinishedWork ==
    CHOOSE f \in 1..Len(bcFibers) :
        bcFibers[f].tag = HostRoot /\ bcFibers[f].memoizedProps.kind = "object"

\* C5: when commitRoot has returned, root.current is the finished work
\* root and workInProgress is null.
C5_RootCurrentSwapped ==
    bcPc = "done" =>
        /\ rootCurrent = FinishedWork
        /\ workInProgress = NULL

\* ------------------------------------------------------------------ C9
\* the fibers from fiber up to the root along return
RECURSIVE ReturnPath(_, _)
ReturnPath(F, fiber) ==
    IF fiber = NULL THEN <<>> ELSE <<fiber>> \o ReturnPath(F, F[fiber].return)

\* the logical name of each native event type: 'on' + the capitalised type
LogicalName ==
    [t \in EventTypes |->
        CASE t = "click" -> "onClick"
          [] t = "mousedown" -> "onMousedown"
          [] t = "mouseup" -> "onMouseup"
          [] OTHER -> "onDblclick"]

HasHandler(f, name) ==
    /\ bcFibers[f].tag = HostComponent
    /\ bcFibers[f].stateNode.kind = "dom"
    /\ name \in DOMAIN bcFibers[f].pendingProps.attrs
    /\ bcFibers[f].pendingProps.attrs[name] # Absent

MaxCalls == 3
SyncLane == 1

PropsOfCall ==
    << ReactProps(NoProps, FALSE, NoStyle, NoChild),
       ReactProps(Props1("id", "foo"), FALSE, NoStyle, ChildText("a")) >>

\* a heap of two fibers: a leaf (1) and a fiber (2) that may have the leaf
\* as its child, a type, lanes and a state node
cwipHeap(tag, type, child, lanes, childLanes, stateNode) ==
    LET B0 == createFiber(EmptyHeap, HostComponent, PropsNull, "null")
        B1 == createFiber(B0, tag, PropsNull, "k")
    IN [B1 EXCEPT !.fibers[2].type = type, !.fibers[2].child = child,
                  !.fibers[2].lanes = lanes, !.fibers[2].childLanes = childLanes,
                  !.fibers[2].stateNode = stateNode]

InitCWIP ==
    /\ DidactOff
    /\ doms = << NewDom("container") >>
    /\ hostLog = <<>>
    /\ \E tag \in {HostRoot, HostComponent}, type \in {"null", "div"},
          child \in {NULL, 1}, lanes \in {NoLanes, SyncLane},
          childLanes \in {NoLanes, SyncLane},
          stateNode \in {NoStateNode, RootObject} :
          LET B == cwipHeap(tag, type, child, lanes, childLanes, stateNode)
          IN /\ bcFibers = B.fibers
             /\ bcQueues = B.queues
             /\ bcInstances = B.instances
             /\ bcUpdates = B.updates
    /\ workInProgress = NULL
    /\ rootCurrent = NULL
    /\ bcPc = "cwip"
    /\ invoked = <<>>
    /\ lastEvent = NoEvent
    /\ lastCall = NoCall
    /\ bcHist = BCHist0

\* createWorkInProgress(current, PropsOfCall[given])
CallCreateWorkInProgress(current, given) ==
    /\ bcPc = "cwip"
    /\ lastCall.calls < MaxCalls
    /\ LET r == createWorkInProgress(Heap, current, PropsOfCall[given])
       IN /\ bcFibers' = r.heap.fibers
          /\ bcQueues' = r.heap.queues
          /\ lastCall' = [current |-> current, node |-> r.node,
                          created |-> Len(r.heap.fibers) > Len(bcFibers),
                          calls |-> lastCall.calls + 1, given |-> given]
          /\ workInProgress' = r.node
    /\ UNCHANGED <<bcInstances, bcUpdates, rootCurrent, bcPc, invoked, lastEvent,
                   doms, hostLog, didactOnly, bcHist>>

NextCWIP ==
    \E current \in 1..Len(bcFibers) : \E given \in 1..Len(PropsOfCall) :
        CallCreateWorkInProgress(current, given)

SpecCWIP == InitCWIP /\ [][NextCWIP]_vars

\* ------------------------------------------------------------------ C6
\* C6: after any calls of createWorkInProgress on a fiber or on the fiber
\* returned, alternate is symmetric, each of the two positions has at most
\* two fibers (no third fiber is allocated), and the fiber returned by the
\* last call is the alternate of the argument, carries the given
\* pendingProps and the argument's type, child, updateQueue, lanes and
\* childLanes, and its stateNode when the call created it.
C6_OwnedPair ==
    bcPc = "cwip" =>
        /\ \A f \in 1..Len(bcFibers) :
              bcFibers[f].alternate # NULL =>
                  /\ bcFibers[f].alternate # f
                  /\ bcFibers[bcFibers[f].alternate].alternate = f
        /\ Len(bcFibers) <= 4
        /\ lastCall.calls > 0 =>
              LET node == bcFibers[lastCall.node]
                  cur == bcFibers[lastCall.current]
              IN /\ workInProgress = lastCall.node
                 /\ cur.alternate = lastCall.node
                 /\ node.pendingProps = PropsOfCall[lastCall.given]
                 /\ node.tag = cur.tag /\ node.key = cur.key
                 /\ node.type = cur.type
                 /\ node.child = cur.child
                 /\ node.updateQueue = cur.updateQueue
                 /\ node.lanes = cur.lanes
                 /\ node.childLanes = cur.childLanes
                 /\ lastCall.created => node.stateNode = cur.stateNode

\* three calls on a fiber with a child and on its twin: still two fibers
\* for the position
C6_Witness ==
    /\ bcPc = "cwip" /\ lastCall.calls = 3
    /\ lastCall.current > 2
    /\ ~lastCall.created
    /\ bcFibers[2].child = 1 /\ bcFibers[2].lanes = SyncLane
    /\ Len(bcFibers) = 3

\* ------------------------------------------------------------------ C11
\* C11: during the render phase no field of a fiber of the current tree is
\* written: a step of the walk (performUnitOfWork with reconcileChildren in
\* the Didact renderer, beginWork and completeWork in the begin/complete
\* renderer) leaves every fiber reachable from the current root as it was.
C11_CurrentReadOnly ==
    [][/\ (pc = "loop" /\ currentRoot # NULL) =>
              \A f \in SeqToSet(PreOrderFrom(fibers, currentRoot)) :
                  fibers'[f] = fibers[f]
       /\ (bcPc \in {"begin", "complete"} /\ rootCurrent # NULL) =>
              \A f \in SeqToSet(PreOrderFrom(bcFibers, rootCurrent)) :
                  bcFibers'[f] = bcFibers[f]]_vars

\* ------------------------------------------------------------------ C12
\* the fibers of the chain fiber, fiber.sibling, ... in order
RECURSIVE SiblingChain(_, _)
SiblingChain(F, fiber) ==
    IF fiber = NULL THEN <<>>
    ELSE <<fiber>> \o SiblingChain(F, F[fiber].sibling)

\* the host nodes of the child fibers of fiber, in the order of the chain
ChildDoms(F, fiber) ==
    LET chain == SiblingChain(F, F[fiber].child)
    IN [i \in 1..Len(chain) |-> F[chain[i]].dom]

\* C12: after every completed commit the host tree agrees with the current
\* tree: the host children of the dom of each fiber are the doms of its
\* child fibers, each once, in the order of the description's children.
C12_HostAgrees ==
    (wipRoot = NULL /\ currentRoot # NULL /\ crashed = "") =>
        \A f \in SeqToSet(PreOrderFrom(fibers, currentRoot)) :
            doms[fibers[f].dom].kids = ChildDoms(fibers, f)

\* ------------------------------------------------------------------ C13
\* The host environment keeps calling a registered workLoop, and a running
\* workLoop goes on to its next unit and to its end; render() is called
\* only between passes.
FairWorkLoop ==
    /\ WF_vars(WorkLoopEnter)
    /\ WF_vars(\E yield \in BOOLEAN : WorkLoopUnit(yield))
    /\ WF_vars(WorkLoopExit)

SpecPassesLive == InitDidact /\ [][NextPasses]_vars /\ FairWorkLoop

\* C13: every started pass finishes: once render() has set up a work tree,
\* after finitely many workLoop invocations the tree has been committed,
\* wipRoot is null and currentRoot is the root of that pass.
C13_PassFinishes ==
    (wipRoot # NULL) ~> (wipRoot = NULL /\ currentRoot = hist.renderedRoot)

\* ------------------------------------------------------------------ C14
\* the fibers of the tree below and including fiber, in post-order: the
\* subtrees of its children from left to right, the fiber, then its siblings
RECURSIVE PostOrderFrom(_, _)
PostOrderFrom(F, fiber) ==
    IF fiber = NULL THEN <<>>
    ELSE PostOrderFrom(F, F[fiber].child) \o <<fiber>>
                                          \o PostOrderFrom(F, F[fiber].sibling)

IsPrefix(s, t) == Len(s) <= Len(t) /\ s = SubSeq(t, 1, Len(s))

\* the root of the work tree: the twin of the current root fiber
WorkRoot == bcFibers[rootCurrent].alternate

HasTextChild(fb) ==
    /\ fb.tag = HostComponent
    /\ fb.pendingProps.kind = "object"
    /\ fb.pendingProps.children.kind \in {"string", "number"}

\* C15: for a HostComponent fiber whose props.children is a string or a
\* number, beginWork creates no child fiber (child is null, no fiber
\* returns to it, and the walk turns to its complete step), and completeWork
\* sets the text content of the host node it creates to that value.
C15_TextChild ==
    \A f \in 1..Len(bcFibers) :
        LET fb == bcFibers[f]
            b  == bcHist.begun
        IN HasTextChild(fb) =>
             /\ InSeq(b, f) =>
                   /\ fb.child = NULL
                   /\ \A g \in 1..Len(bcFibers) : bcFibers[g].return # f
             /\ (b # <<>> /\ b[Len(b)] = f /\ ~InSeq(bcHist.completed, f)) =>
                   (bcPc = "complete" /\ workInProgress = f)
             /\ InSeq(bcHist.completed, f) =>
                   /\ fb.stateNode.kind = "dom"
                   /\ doms[fb.stateNode.id].text = fb.pendingProps.children.text
                   /\ doms[fb.stateNode.id].kids = <<>>

\* the host node of <em>{0}</em> has been completed with the text 0
C15_Witness ==
    \E f \in 1..Len(bcFibers) :
        /\ HasTextChild(bcFibers[f])
        /\ bcFibers[f].pendingProps.children = ChildNumber("0")
        /\ InSeq(bcHist.completed, f)
        /\ doms[bcFibers[f].stateNode.id].text = "0"

\* ======================================================== diffProperties
\* diffProperties(oldProps, newProps) of src/src/dom.js on props objects.
\* Object.entries visits the ordinary keys in KeyOrder, then style, then
\* children.  A value is a string; Zero stands for the number 0 and
\* NullValue for null (no string "0" or "<null>" occurs among the values).
Zero == "0"
NullValue == "<null>"

\* the truth value of v in if (v), undefined (Absent) included
jsTruthy(v) == v \notin {Absent, "", Zero}

\* one pair updatePayload.push(k, v); style is the object pushed with the
\* key 'style', a sub-key without entry maps to Absent
payloadEntry(k, v) == [key |-> k, value |-> v, style |-> NoStyle]

\* the first loop on the ordinary keys of oldProps
RECURSIVE diffOldAttrs(_, _, _, _)
diffOldAttrs(P, oldProps, newProps, i) ==
    IF i > Len(KeyOrder) THEN P
    ELSE LET k == KeyOrder[i]
             P1 == IF oldProps.attrs[k] = Absent THEN P
                   ELSE IF jsTruthy(newProps.attrs[k]) THEN P
                   ELSE IF startsWith(k, "on") \/ k = "children" THEN P
                   ELSE Append(P, payloadEntry(k, NullValue))
         IN diffOldAttrs(P1, oldProps, newProps, i + 1)

\* the first loop on the key style of oldProps: styleUpdates[sk] = ''
diffOldStyle(S, oldProps, newProps) ==
    IF oldProps.hasStyle /\ ~newProps.hasStyle
    THEN [sk \in StyleKeys |-> IF oldProps.style[sk] # Absent THEN "" ELSE S[sk]]
    ELSE S

\* the second loop on the ordinary keys of newProps
RECURSIVE diffNewAttrs(_, _, _, _)
diffNewAttrs(P, oldProps, newProps, i) ==
    IF i > Len(KeyOrder) THEN P
    ELSE LET k == KeyOrder[i]
             v == newProps.attrs[k]
             P1 == IF v = Absent THEN P
                   ELSE IF v = oldProps.attrs[k] THEN P
                   ELSE IF startsWith(k, "on") THEN P
                   ELSE Append(P, payloadEntry(k, v))
         IN diffNewAttrs(P1, oldProps, newProps, i + 1)

\* the second loop on the key style of newProps; sameObject says that
\* newProps.style and oldProps.style are one object (v === lastProp)
diffNewStyle(S, oldProps, newProps, sameObject) ==
    IF ~newProps.hasStyle THEN S
    ELSE IF oldProps.hasStyle /\ sameObject THEN S
    ELSE IF oldProps.hasStyle
    THEN LET S1 == [sk \in StyleKeys |->
                       IF oldProps.style[sk] # Absent /\ ~jsTruthy(newProps.style[sk])
                       THEN "" ELSE S[sk]]
         IN [sk \in StyleKeys |->
                IF newProps.style[sk] # Absent
                   /\ newProps.style[sk] # oldProps.style[sk]
                THEN newProps.style[sk] ELSE S1[sk]]
    ELSE newProps.style

\* the second loop on the key children of newProps
diffNewChildren(P, oldProps, newProps) ==
    LET v == newProps.children
    IN IF v.kind = "undefined" THEN P
       ELSE IF v = oldProps.children THEN P
       ELSE IF isTextValue(v) THEN Append(P, payloadEntry("children", v.text))
       ELSE P

diffProperties(oldProps, newProps, sameObject) ==
    LET P1 == diffOldAttrs(<<>>, oldProps, newProps, 1)
        S1 == diffOldStyle(NoStyle, oldProps, newProps)
        P2 == diffNewAttrs(P1, oldProps, newProps, 1)
        S2 == diffNewStyle(S1, oldProps, newProps, sameObject)
        P3 == diffNewChildren(P2, oldProps, newProps)
        P4 == IF \E sk \in StyleKeys : S2[sk] # Absent
              THEN Append(P3, [key |-> "style", value |-> "", style |-> S2])
              ELSE P3
    IN [kind |-> IF Len(P4) > 0 THEN "array" ELSE "null", entries |-> P4]

\* the props objects handed to diffProperties
DiffAttrs ==
    { [NoProps EXCEPT !["id"] = i, !["title"] = t, !["onClick"] = h] :
          i \in {Absent, "a", "b"}, t \in {Absent, "t", ""},
          h \in {Absent, "h1"} }
DiffStyles ==
    { [color |-> c, fontSize |-> f] :
          c \in {Absent, "red", Zero}, f \in {Absent, "12px"} }
DiffProps ==
    { ReactProps(a, FALSE, NoStyle, c) :
          a \in DiffAttrs, c \in {NoChild, ChildText("x")} }
    \cup { ReactProps(a, TRUE, s, c) :
          a \in DiffAttrs, s \in DiffStyles, c \in {NoChild, ChildText("x")} }

\* a diffProperties call about to be made, or made
DiffCall(oldProps, newProps, sameObject, done, result) ==
    [fn |-> "diffProperties", oldProps |-> oldProps, newProps |-> newProps,
     sameObject |-> sameObject, done |-> done, result |-> result]

NoPayload == [kind |-> "null", entries |-> <<>>]

InitDiff ==
    /\ DidactOff
    /\ doms = << NewDom("container") >>
    /\ hostLog = <<>>
    /\ bcFibers = <<>>
    /\ bcQueues = <<>>
    /\ bcInstances = <<>>
    /\ bcUpdates = <<>>
    /\ workInProgress = NULL
    /\ rootCurrent = NULL
    /\ bcPc = "diff"
    /\ invoked = <<>>
    /\ lastEvent = NoEvent
    /\ bcHist = BCHist0
    /\ \E oldProps \in DiffProps, newProps \in DiffProps, sameObject \in BOOLEAN :
          \* one object for both styles only where both props carry it
          /\ sameObject =>
                (oldProps.hasStyle /\ newProps.hasStyle
                 /\ oldProps.style = newProps.style)
          /\ lastCall = DiffCall(oldProps, newProps, sameObject, FALSE, NoPayload)

CallDiffProperties ==
    /\ bcPc = "diff"
    /\ ~lastCall.done
    /\ lastCall' = [lastCall EXCEPT
                      !.done = TRUE,
                      !.result = diffProperties(lastCall.oldProps, lastCall.newProps,
                                                lastCall.sameObject)]
    /\ UNCHANGED <<bcFibers, bcQueues, bcInstances, bcUpdates, workInProgress,
                   rootCurrent, bcPc, invoked, lastEvent, bcHist, doms, hostLog,
                   didactOnly>>

NextDiff == CallDiffProperties

SpecDiff == InitDiff /\ [][NextDiff]_vars

\* the entries of the payload of the last diffProperties call
PayloadEntries == lastCall.result.entries
\* the ordinary keys: not style, not children, not an event-handler key
OrdinaryKeys == { k \in Keys : ~startsWith(k, "on") }

\* ------------------------------------------------------------------ C16
\* C16: after diffProperties(old, new), the keys with a clearing entry
\* (value null) are exactly the ordinary keys present in old and absent
\* from new; no ordinary key and no children value that is identical in old
\* and new has an entry; and diffProperties(p, p) reports no delta.
C16_PropertyClearing ==
    (bcPc = "diff" /\ lastCall.done) =>
        LET o == lastCall.oldProps
            n == lastCall.newProps
            P == PayloadEntries
            cleared == { P[i].key : i \in { j \in 1..Len(P) : P[j].value = NullValue } }
            gone == { k \in OrdinaryKeys : o.attrs[k] # Absent /\ n.attrs[k] = Absent }
        IN /\ cleared = gone
           /\ \A i \in 1..Len(P) :
                 /\ P[i].key \in Keys =>
                       ~(o.attrs[P[i].key] # Absent
                         /\ o.attrs[P[i].key] = n.attrs[P[i].key])
                 /\ P[i].key = "children" => o.children # n.children
           /\ (o = n /\ (o.hasStyle => lastCall.sameObject)) =>
                 lastCall.result.kind = "null"

\* ------------------------------------------------------------------ C17
\* C17: when old and new props both carry a style object, the style entry
\* of the payload maps each sub-key present in old and absent from new to
\* '', each added or changed sub-key to its new value, and has no entry for
\* an unchanged sub-key; without a differing sub-key there is no style entry.
C17_StylePerSubKey ==
    (bcPc = "diff" /\ lastCall.done
     /\ lastCall.oldProps.hasStyle /\ lastCall.newProps.hasStyle) =>
        LET o == lastCall.oldProps.style
            n == lastCall.newProps.style
            P == PayloadEntries
            at == { i \in 1..Len(P) : P[i].key = "style" }
            expected == [sk \in StyleKeys |->
                            IF o[sk] # Absent /\ n[sk] = Absent THEN ""
                            ELSE IF n[sk] # Absent /\ n[sk] # o[sk] THEN n[sk]
                            ELSE Absent]
        IN IF expected = NoStyle
           THEN at = {}
           ELSE /\ Cardinality(at) = 1
                /\ \A i \in at : P[i].style = expected

\* ------------------------------------------------------------------ C18
\* the fibers below fiber are all component fibers (none when it has no child)
OnlyComponentsBelow(F, fiber) ==
    \A g \in SeqToSet(PreOrderFrom(F, F[fiber].child)) :
        F[g].tag \in {FunctionComponent, ClassComponent}

\* C18: when completeWork calls appendChildren on a host fiber below which
\* there are only component fibers, one without child included, the call
\* ends without error and appends nothing: the fiber has its host node, the
\* node has no host child and no appendChild call names it as parent.
C18_NoHostBelow ==
    \A f \in 1..Len(bcFibers) :
        (/\ bcPc \in {"begin", "complete", "commit", "done", "crashed"}
         /\ bcFibers[f].tag = HostComponent
         /\ InSeq(bcHist.completed, f)
         /\ OnlyComponentsBelow(bcFibers, f)) =>
            /\ bcPc # "crashed"
            /\ bcFibers[f].stateNode.kind = "dom"
            /\ doms[bcFibers[f].stateNode.id].kids = <<>>
            /\ ~\E i \in 1..Len(hostLog) :
                  /\ hostLog[i].op = "appendChild"
                  /\ hostLog[i].node = bcFibers[f].stateNode.id

\* a completed host fiber over a component whose only child is a component
\* without child
C18_Witness ==
    \E f \in 1..Len(bcFibers) :
        /\ bcFibers[f].tag = HostComponent
        /\ InSeq(bcHist.completed, f)
        /\ bcFibers[f].child # NULL
        /\ bcFibers[bcFibers[f].child].tag = FunctionComponent
        /\ bcFibers[bcFibers[f].child].child # NULL
        /\ OnlyComponentsBelow(bcFibers, f)

\* ------------------------------------------------------------------ C19
\* the addEventListener and removeEventListener calls made so far
ListenerCalls ==
    SelectSeq(hostLog,
              LAMBDA c : c.op \in {"addEventListener", "removeEventListener"})

\* C19: in the begin/complete renderer the only native listeners are those
\* of listenToAllEvents(container): one addEventListener call for each of
\* click, mousedown, mouseup and dblclick, in this order, all on the root
\* container with dispatchEvent (registered with capture false); no other
\* node has a listener and rendering, committing and dispatching make no
\* addEventListener or removeEventListener call.
C19_RootListenersOnly ==
    bcPc \in {"begin", "complete", "commit", "done", "crashed"} =>
        /\ ListenerCalls =
              [i \in 1..4 |->
                  HostCall("addEventListener", Container, NULL,
                           <<"click", "mousedown", "mouseup", "dblclick">>[i],
                           "dispatchEvent")]
        /\ doms[Container].listeners =
              { <<type, "dispatchEvent">> :
                    type \in {"click", "mousedown", "mouseup", "dblclick"} }
        /\ \A d \in 1..Len(doms) : d # Container => doms[d].listeners = {}

\* handlers of two host nodes have run on a dispatched event
C19_Witness ==
    /\ bcPc = "done"
    /\ lastEvent.type # ""
    /\ Len(invoked) >= 2
    /\ \E d \in 1..Len(doms) : d # Container /\ doms[d].attrs["onClick"] # Absent

\* =================================================== React.createElement
\* createElement(type, config, ...children) of react.js (part_001) on a heap
\* O of objects.  An object holds the keys key, ref, id and children; the
\* value of children is absent, one child or an array of children.
MaxCreates == 2

NoChildren == [kind |-> "absent", els |-> <<>>]
OneChild(c) == [kind |-> "single", els |-> <<c>>]
ChildrenArray(cs) == [kind |-> "array", els |-> cs]
ConfigObject(key, ref, id, children) ==
    [key |-> key, ref |-> ref, id |-> id, children |-> children]
EmptyObject == ConfigObject(Absent, Absent, Absent, NoChildren)

\* x || null
orNull(x) == IF jsTruthy(x) THEN x ELSE "null"

\* createElement(type, config, ...children): the heap after the call and the
\* description returned, whose props is an object of the heap
reactCreateElement(O, type, config, children) ==
    LET \* let props = {}, or props = config after the two deleteProperty
        O1 == IF config # NULL
              THEN [O EXCEPT ![config].key = Absent, ![config].ref = Absent]
              ELSE Append(O, EmptyObject)
        props == IF config # NULL THEN config ELSE Len(O1)
        O2 == IF Len(children) = 0 THEN O1
              ELSE IF Len(children) = 1
              THEN [O1 EXCEPT ![props].children = OneChild(children[1])]
              ELSE [O1 EXCEPT ![props].children = ChildrenArray(children)]
    IN [objs |-> O2,
        element |-> [type |-> type,
                     key |-> IF config # NULL THEN orNull(O[config].key) ELSE "null",
                     ref |-> IF config # NULL THEN orNull(O[config].ref) ELSE "null",
                     props |-> props]]

\* the config objects handed to createElement
ConfigInputs ==
    { ConfigObject(k, r, i, c) :
          k \in {Absent, "k1", ""}, r \in {Absent, "r1"}, i \in {Absent, "a"},
          c \in {NoChildren, OneChild("old")} }
\* the children arguments of a call
ChildrenInputs == { <<>>, <<"x">>, <<"x", "y">> }

\* createElement calls made with one config: given is what config held
\* before the first call, objs the heap, args the children of each call and
\* made the descriptions returned
CreateCalls(config, given, objs, args, made) ==
    [fn |-> "createElement", config |-> config, given |-> given, objs |-> objs,
     args |-> args, made |-> made]

InitCreate ==
    /\ DidactOff
    /\ doms = << NewDom("container") >>
    /\ hostLog = <<>>
    /\ bcFibers = <<>>
    /\ bcQueues = <<>>
    /\ bcInstances = <<>>
    /\ bcUpdates = <<>>
    /\ workInProgress = NULL
    /\ rootCurrent = NULL
    /\ bcPc = "create"
    /\ invoked = <<>>
    /\ lastEvent = NoEvent
    /\ bcHist = BCHist0
    /\ \/ lastCall = CreateCalls(NULL, EmptyObject, <<>>, <<>>, <<>>)
       \/ \E c \in ConfigInputs :
             lastCall = CreateCalls(1, c, <<c>>, <<>>, <<>>)

\* React.createElement('li', config, ...children) with the same config
CallCreateElement(children) ==
    /\ bcPc = "create"
    /\ Len(lastCall.made) < MaxCreates
    /\ LET r == reactCreateElement(lastCall.objs, "li", lastCall.config, children)
       IN lastCall' = [lastCall EXCEPT !.objs = r.objs,
                                       !.args = Append(@, children),
                                       !.made = Append(@, r.element)]
    /\ UNCHANGED <<bcFibers, bcQueues, bcInstances, bcUpdates, workInProgress,
                   rootCurrent, bcPc, invoked, lastEvent, bcHist, doms, hostLog,
                   didactOnly>>

NextCreate == \E children \in ChildrenInputs : CallCreateElement(children)

SpecCreate == InitCreate /\ [][NextCreate]_vars

\* ------------------------------------------------------------------ C20
\* config minus key and ref plus the children of a call
ExpectedProps(given, children) ==
    [given EXCEPT !.key = Absent, !.ref = Absent,
                  !.children = IF Len(children) = 0 THEN @
                               ELSE IF Len(children) = 1 THEN OneChild(children[1])
                               ELSE ChildrenArray(children)]

\* C20: createElement does not modify its config argument: after any
\* number of calls with one config object, the object holds what it held
\* before the first call, every description returned has the key and the
\* ref of the config, and its props are the config without key and ref plus
\* the children of its call (one value for one child, an array for several).
C20_FactoryPure ==
    (bcPc = "create" /\ lastCall.config # NULL) =>
        /\ lastCall.objs[lastCall.config] = lastCall.given
        /\ \A i \in 1..Len(lastCall.made) :
              /\ lastCall.made[i].key = orNull(lastCall.given.key)
              /\ lastCall.made[i].ref = orNull(lastCall.given.ref)
              /\ lastCall.objs[lastCall.made[i].props] =
                    ExpectedProps(lastCall.given, lastCall.args[i])

\* ------------------------------------------------------------------ C21
\* the step is a call performUnitOfWork(nextUnitOfWork) made by workLoop
UnitStep == pc = "loop" /\ nextUnitOfWork # NULL /\ visited' # visited
\* the children of the alternate of fiber, the old child chain
OldChain(F, fiber) ==
    IF F[fiber].alternate = NULL THEN <<>>
    ELSE SiblingChain(F, F[F[fiber].alternate].child)

\* C21: when performUnitOfWork has reconciled the children of a fiber, the
\* fiber made for the element at each position i is tagged UPDATE with the
\* old fiber's dom, the element's props and alternate = the old fiber when
\* the old chain has a fiber of the same type at position i, and is tagged
\* PLACEMENT with dom = null and alternate = null otherwise.
C21_TaggingRule ==
    [][UnitStep =>
          LET w == nextUnitOfWork
              elements == fibers[w].kids
              old == OldChain(fibers, w)
              new == SiblingChain(fibers', fibers'[w].child)
          IN /\ Len(new) >= Len(elements)
             /\ \A i \in 1..Len(elements) :
                   LET nf == fibers'[new[i]]
                   IN /\ nf.type = elements[i].type
                      /\ nf.props = elements[i].props
                      /\ nf.kids = elements[i].kids
                      /\ IF i <= Len(old) /\ fibers[old[i]].type = elements[i].type
                         THEN /\ nf.effectTag = "UPDATE"
                              /\ nf.dom = fibers[old[i]].dom
                              /\ nf.dom # NULL
                              /\ nf.alternate = old[i]
                         ELSE /\ nf.effectTag = "PLACEMENT"
                              /\ nf.dom = NULL
                              /\ nf.alternate = NULL]_vars

\* a fiber placed where the old chain had another type, followed by a fiber
\* that updates the old fiber of its position
C21_Witness ==
    \E f \in 1..Len(fibers) :
        /\ fibers[f].effectTag = "PLACEMENT"
        /\ fibers[f].parent # NULL
        /\ Len(OldChain(fibers, fibers[f].parent)) = 2
        /\ fibers[fibers[f].parent].child = f
        /\ fibers[f].sibling # NULL
        /\ fibers[fibers[f].sibling].effectTag = "UPDATE"
        /\ fibers[fibers[f].sibling].alternate = OldChain(fibers, fibers[f].parent)[2]

\* ------------------------------------------------------------------ C22
\* the fibers of the old chain that have no element of their type at their
\* position, in chain order
RECURSIVE Unmatched(_, _, _, _)
Unmatched(F, old, elements, i) ==
    IF i > Len(old) THEN <<>>
    ELSE (IF i <= Len(elements) /\ elements[i].type = F[old[i]].type
          THEN <<>> ELSE <<old[i]>>)
         \o Unmatched(F, old, elements, i + 1)

\* C22: for every old chain and every element array, shorter and empty
\* arrays included, reconcileChildren ends without error, and the old fibers
\* it tags DELETION and pushes to deletions are exactly those without an
\* element of the same type at their position, each pushed once.
C22_DeletionTagging ==
    [][UnitStep =>
          LET w == nextUnitOfWork
              gone == Unmatched(fibers, OldChain(fibers, w), fibers[w].kids, 1)
          IN /\ crashed' = ""
             /\ deletions' = deletions \o gone
             /\ \A i \in 1..Len(gone) : fibers'[gone[i]].effectTag = "DELETION"]_vars

\* ------------------------------------------------------------------ C23
\* the step is the commitRoot() call at the end of workLoop
CommitStep ==
    pc = "loop" /\ pc' = "idle" /\ nextUnitOfWork = NULL /\ wipRoot # NULL

\* C23: deletions.forEach(commitWork) in commitRoot makes one removeChild
\* call per fiber of deletions, on the host node of the fiber's parent, and
\* no other host call; none of the calls throws.
C23_DeletionsOnly ==
    [][CommitStep =>
          LET Hd == commitDeletions(fibers, HostState(doms, hostLog), deletions, 1)
              calls == SubSeq(Hd.log, Len(hostLog) + 1, Len(Hd.log))
          IN /\ IsPrefix(Hd.log, hostLog')
             /\ ~Hd.err
             /\ calls = [i \in 1..Len(deletions) |->
                            HostCall("removeChild",
                                     fibers[fibers[deletions[i]].parent].dom,
                                     fibers[deletions[i]].dom, "", "")]]_vars

\* ------------------------------------------------------------------ C24
\* C24: when performUnitOfWork has reconciled the children of a fiber, the
\* chain from its child along the sibling links has one fiber per element,
\* the fiber at position i is the one made for element i, each has the fiber
\* as parent and the last one has no sibling (SiblingChain ends there);
\* without elements the fiber has no child.  Neither the old chain nor any
\* key enters: the chain is that of the element array.
C24_ChildOrder ==
    [][UnitStep =>
          LET w == nextUnitOfWork
              elements == fibers[w].kids
              new == SiblingChain(fibers', fibers'[w].child)
          IN /\ Len(new) = Len(elements)
             /\ \A i \in 1..Len(new) :
                   /\ new[i] = Len(fibers) + i
                   /\ fibers'[new[i]].type = elements[i].type
                   /\ fibers'[new[i]].props = elements[i].props
                   /\ fibers'[new[i]].parent = w
             /\ \A i \in 1..Len(new) :
                   fibers'[new[i]].sibling = (IF i < Len(new) THEN new[i + 1] ELSE NULL)]_vars

\* a fiber with two children in the order of its elements, made over an old
\* chain whose types are in another order
C24_Witness ==
    \E f \in 1..Len(fibers) :
        /\ InSeq(visited, f)
        /\ Len(fibers[f].kids) = 2
        /\ Len(OldChain(fibers, f)) = 2
        /\ fibers[OldChain(fibers, f)[2]].type = fibers[f].kids[1].type
        /\ SiblingChain(fibers, fibers[f].child) # <<>>
        /\ fibers[fibers[f].child].type = fibers[f].kids[1].type

\* ------------------------------------------------------------------ C25
\* the listeners that the handler props of props ask for
HandlerListeners(props) ==
    { <<EventTypeOf(k), props[k]>> : k \in { j \in Keys : isEvent(j) /\ props[j] # Absent } }

\* C25: after every commit of the Didact renderer, for every fiber of the
\* committed tree, no event-handler key has been written as a property of
\* its host node and the listeners of the node are exactly those of the
\* handler props of the fiber.
C25_HandlersAsListeners ==
    (pc = "idle" /\ wipRoot = NULL /\ currentRoot # NULL /\ crashed = "") =>
        \A f \in SeqToSet(PreOrderFrom(fibers, fibers[currentRoot].child)) :
            /\ \A k \in Keys : isEvent(k) => doms[fibers[f].dom].attrs[k] = Absent
            /\ doms[fibers[f].dom].listeners = HandlerListeners(fibers[f].props)

\* ============================================================= updateDom
\* updateDom(dom, prevProps, nextProps) of the Didact renderer on its own:
\* the props are drawn, the host node is one that the renderer has made for
\* prevProps, either by createDom or by createDom without props followed by
\* an update to prevProps.
UpdateProps ==
    { [NoProps EXCEPT !["id"] = i, !["title"] = t, !["onClick"] = c,
                      !["onMouseDown"] = m] :
          i \in {Absent, "a", "b"}, t \in {Absent, "t"},
          c \in {Absent, "h1", "h2"}, m \in {Absent, "d1"} }

\* the host state with the node of a fiber with the given props
nodeCreated(props) ==
    createDom(HostState(<< NewDom("container") >>, <<>>),
              Fiber("a", props, <<>>, NULL, NULL, NULL, "PLACEMENT"))
nodeUpdated(props) ==
    LET H == nodeCreated(NoProps) IN updateDom(H, Len(H.doms), NoProps, props)

UpdateCall(prevProps, nextProps, dom, done) ==
    [fn |-> "updateDom", prevProps |-> prevProps, nextProps |-> nextProps,
     dom |-> dom, done |-> done]

InitUpdateDom ==
    /\ DidactOff
    /\ bcFibers = <<>>
    /\ bcQueues = <<>>
    /\ bcInstances = <<>>
    /\ bcUpdates = <<>>
    /\ workInProgress = NULL
    /\ rootCurrent = NULL
    /\ bcPc = "updateDom"
    /\ invoked = <<>>
    /\ lastEvent = NoEvent
    /\ bcHist = BCHist0
    /\ \E prevProps \in UpdateProps, nextProps \in UpdateProps, updated \in BOOLEAN :
          LET H == IF updated THEN nodeUpdated(prevProps) ELSE nodeCreated(prevProps)
          IN /\ doms = H.doms
             /\ hostLog = <<>>
             /\ lastCall = UpdateCall(prevProps, nextProps, Len(H.doms), FALSE)

\* updateDom(dom, prevProps, nextProps); hostLog holds the calls it makes
CallUpdateDom ==
    /\ bcPc = "updateDom"
    /\ ~lastCall.done
    /\ LET H == updateDom(HostState(doms, <<>>), lastCall.dom,
                          lastCall.prevProps, lastCall.nextProps)
       IN /\ doms' = H.doms
          /\ hostLog' = H.log
    /\ lastCall' = [lastCall EXCEPT !.done = TRUE]
    /\ UNCHANGED <<bcFibers, bcQueues, bcInstances, bcUpdates, workInProgress,
                   rootCurrent, bcPc, invoked, lastEvent, bcHist, didactOnly>>

NextUpdateDom == CallUpdateDom

SpecUpdateDom == InitUpdateDom /\ [][NextUpdateDom]_vars

\* ------------------------------------------------------------------ C26
\* the event-handler keys
EventKeys == { k \in Keys : isEvent(k) }

\* C26: the listener calls of updateDom(dom, prev, next) are one
\* removeEventListener(type, prev[k]) for every handler key k of prev that is
\* absent from next or has another handler in next, and one
\* addEventListener(type, next[k]) for every handler key k of next that is
\* new or has another handler than in prev; every removal comes before
\* every addition and an unchanged handler gets no call.
C26_ListenerTransition ==
    (bcPc = "updateDom" /\ lastCall.done) =>
        LET prev == lastCall.prevProps
            next == lastCall.nextProps
            calls == ListenerCalls
            removed == { k \in EventKeys : prev[k] # Absent /\ next[k] # prev[k] }
            added == { k \in EventKeys : next[k] # Absent /\ next[k] # prev[k] }
        IN /\ Len(calls) = Cardinality(removed) + Cardinality(added)
           /\ { calls[i] : i \in 1..Cardinality(removed) } =
                 { HostCall("removeEventListener", lastCall.dom, NULL,
                            EventTypeOf(k), prev[k]) : k \in removed }
           /\ { calls[i] : i \in (Cardinality(removed) + 1)..Len(calls) } =
                 { HostCall("addEventListener", lastCall.dom, NULL,
                            EventTypeOf(k), next[k]) : k \in added }

\* one handler replaced, one handler kept, on a node that had both listeners
C26_Witness ==
    /\ bcPc = "updateDom"
    /\ lastCall.done
    /\ lastCall.prevProps["onClick"] = "h1"
    /\ lastCall.nextProps["onClick"] = "h2"
    /\ lastCall.prevProps["onMouseDown"] = "d1"
    /\ lastCall.nextProps["onMouseDown"] = "d1"
    /\ doms[lastCall.dom].listeners = { <<"click", "h2">>, <<"mousedown", "d1">> }

\* ------------------------------------------------------------------ C27
\* the ordinary keys: not children, not an event handler
PropertyKeys == { k \in Keys : isProperty(k) }
\* the dom[name] = value writes of the last updateDom call
PropertyWrites == SelectSeq(hostLog, LAMBDA c : c.op = "set")

\* C27: updateDom writes '' to every ordinary key of prev that is gone from
\* next, writes the new value to every ordinary key of next whose value
\* differs from prev's, and writes no other key, each at most once;
\* afterwards the host node holds the new value of every ordinary key of next.
C27_PropertyDelta ==
    (bcPc = "updateDom" /\ lastCall.done) =>
        LET prev == lastCall.prevProps
            next == lastCall.nextProps
            writes == PropertyWrites
            gone == { k \in PropertyKeys : prev[k] # Absent /\ next[k] = Absent }
            changed == { k \in PropertyKeys : next[k] # Absent /\ next[k] # prev[k] }
        IN /\ Len(writes) = Cardinality(gone) + Cardinality(changed)
           /\ { writes[i] : i \in 1..Len(writes) } =
                 { HostCall("set", lastCall.dom, NULL, k, "") : k \in gone }
                 \cup { HostCall("set", lastCall.dom, NULL, k, next[k]) : k \in changed }
           /\ \A k \in PropertyKeys :
                 next[k] # Absent => doms[lastCall.dom].attrs[k] = next[k]

\* one property changed and one gone
C27_Witness ==
    /\ bcPc = "updateDom"
    /\ lastCall.done
    /\ lastCall.prevProps["id"] = "a"
    /\ lastCall.nextProps["id"] = "b"
    /\ lastCall.prevProps["title"] = "t"
    /\ lastCall.nextProps["title"] = Absent
    /\ doms[lastCall.dom].attrs["id"] = "b"
    /\ doms[lastCall.dom].attrs["title"] = ""

\* ===================================== beginWork on a class component again
\* beginWork(current, workInProgress) of part_004 for a class component that
\* has been rendered before: current is its fiber with the instance, the
\* work-in-progress fiber is the twin createWorkInProgress makes, and the
\* update queue of current holds a circular list of the drawn payloads, its
\* pending pointer on the last one enqueued, or no update at all.
MaxUpdates == 3

StatePayloads ==
    { [count |-> c, name |-> n] : c \in {Absent, "1", "2"}, n \in {Absent, "n"} }

RECURSIVE PayloadLists(_)
PayloadLists(k) ==
    IF k = 0 THEN { <<>> }
    ELSE { Append(l, p) : l \in PayloadLists(k - 1), p \in StatePayloads }

ClassDescription ==
    ChildElement(ReactElement("AppClassComponent", "null",
                              ReactProps(NoProps, FALSE, NoStyle, NoChild)))

\* the heap before the call: the fiber 1 of the component after its first
\* beginWork, its instance holding state, its twin, and the updates
foldHeap(state, payloads) ==
    LET k == Len(payloads)
        B0 == createFiberFromElement(EmptyHeap, ClassDescription)
        B1 == beginWork(B0, NULL, 1).heap
        B2 == [B1 EXCEPT !.instances[1].state = state]
        r == createWorkInProgress(B2, 1, B2.fibers[1].pendingProps)
        q == r.heap.fibers[1].updateQueue
    IN [heap |-> [r.heap EXCEPT
                     !.updates = [i \in 1..k |->
                                     [payload |-> payloads[i], next |-> (i % k) + 1]],
                     !.queues[q].pending = IF k = 0 THEN NULL ELSE k],
        node |-> r.node]

FoldCall(state, payloads, node, done, err, next, order) ==
    [fn |-> "beginWork", state |-> state, payloads |-> payloads, node |-> node,
     done |-> done, err |-> err, next |-> next, order |-> order]

InitFold ==
    /\ DidactOff
    /\ doms = << NewDom("container") >>
    /\ hostLog = <<>>
    /\ workInProgress = NULL
    /\ rootCurrent = NULL
    /\ bcPc = "fold"
    /\ invoked = <<>>
    /\ lastEvent = NoEvent
    /\ bcHist = BCHist0
    /\ \E k \in 0..MaxUpdates, state \in {NoState, [count |-> "0", name |-> Absent]} :
          \E payloads \in PayloadLists(k) :
             LET h == foldHeap(state, payloads)
             IN /\ bcFibers = h.heap.fibers
                /\ bcQueues = h.heap.queues
                /\ bcInstances = h.heap.instances
                /\ bcUpdates = h.heap.updates
                /\ lastCall = FoldCall(state, payloads, h.node, FALSE, FALSE, NULL, <<>>)

\* beginWork(workInProgress.alternate, workInProgress)
CallBeginWork ==
    /\ bcPc = "fold"
    /\ ~lastCall.done
    /\ LET wip == lastCall.node
           current == bcFibers[wip].alternate
           pendingState == bcQueues[bcFibers[current].updateQueue].pending
           r == beginWork(Heap, current, wip)
       IN /\ bcFibers' = r.heap.fibers
          /\ bcQueues' = r.heap.queues
          /\ bcInstances' = r.heap.instances
          /\ bcUpdates' = r.heap.updates
          /\ lastCall' = [lastCall EXCEPT
                            !.done = TRUE, !.err = r.err, !.next = r.next,
                            !.order = IF pendingState = NULL THEN <<>>
                                      ELSE foldOrder(bcUpdates,
                                                     bcUpdates[pendingState].next,
                                                     pendingState)]
    /\ UNCHANGED <<workInProgress, rootCurrent, bcPc, invoked, lastEvent, bcHist,
                   doms, hostLog, didactOnly>>

NextFold == CallBeginWork

SpecFold == InitFold /\ [][NextFold]_vars

\* ------------------------------------------------------------------ C28
\* the state after the payloads have been merged into state one after the
\* other: for each key the value of the last payload that holds it
MergedState(state, payloads) ==
    [key \in StateKeys |->
        LET with == { i \in 1..Len(payloads) : payloads[i][key] # Absent }
        IN IF with = {} THEN state[key]
           ELSE payloads[CHOOSE i \in with : \A j \in with : j <= i][key]]

\* the child that the call has linked to the work-in-progress fiber is the
\* fiber of the description render() returns
RendersChild ==
    /\ lastCall.next # NULL
    /\ lastCall.next = bcFibers[lastCall.node].child
    /\ bcFibers[lastCall.next].type = ElClassResult.type
    /\ bcFibers[lastCall.next].pendingProps = ElClassResult.props
    /\ bcFibers[lastCall.next].return = lastCall.node

\* C28: with k >= 1 updates in the circular pending list, beginWork merges
\* the payloads once each, from pending.next (the oldest) to pending (the
\* newest) where it stops, a later payload winning for a key, leaves the
\* merged state in the instance and returns the child of render().
C28_StateFolding ==
    (bcPc = "fold" /\ lastCall.done /\ Len(lastCall.payloads) >= 1) =>
        /\ ~lastCall.err
        /\ lastCall.order = [i \in 1..Len(lastCall.payloads) |-> i]
        /\ bcInstances[1].state = MergedState(lastCall.state, lastCall.payloads)
        /\ RendersChild

\* three updates, the newest overwrites a key of the oldest, the state held
\* another key before
C28_Witness ==
    /\ bcPc = "fold"
    /\ lastCall.done
    /\ Len(lastCall.payloads) = 3
    /\ lastCall.payloads[1]["count"] = "1"
    /\ lastCall.payloads[3]["count"] = "2"
    /\ bcInstances[1].state["count"] = "2"
    /\ bcQueues[bcFibers[1].updateQueue].pending = 3
    /\ bcUpdates[3].next = 1

\* ------------------------------------------------------------------ C29
\* C29: with no update in the queue (pending is null), beginWork on the
\* class component ends without error, leaves the state of the instance as
\* it was and returns the child of render().
C29_EmptyQueue ==
    (bcPc = "fold" /\ lastCall.done /\ Len(lastCall.payloads) = 0) =>
        /\ ~lastCall.err
        /\ bcInstances[1].state = lastCall.state
        /\ RendersChild

\* ==================================================== handlers that call
\* dispatchEvent(event) of listenToAllEvents.js with handlers that call a
\* method of the event they receive.  The listener is registered on the
\* container only, so event is an Event object of the host: its methods and
\* its attributes type and target live on the prototype and Object.keys(event)
\* is isTrusted alone.
NativeEventKeys == {"isTrusted"}

\* new SyntheticEvent(event): own holds the keys of the object, stubs those
\* of them that hold the empty function
SyntheticEvent(eventKeys) ==
    [own |-> {"nativeEvent"} \cup eventKeys,
     stubs |-> eventKeys \cap {"preventDefault", "stopPropagation"}]

\* for (const listener of listeners) listener(syntheticEvent), where the
\* listener at position caller calls syntheticEvent[method]() ("" for none):
\* calling what is not a function throws and ends the loop
RECURSIVE runListeners(_, _, _, _, _)
runListeners(listeners, syntheticEvent, caller, method, i) ==
    IF i > Len(listeners) THEN [invoked |-> <<>>, threw |-> FALSE]
    ELSE IF i = caller /\ method # "" /\ method \notin syntheticEvent.stubs
    THEN [invoked |-> <<listeners[i]>>, threw |-> TRUE]
    ELSE LET rest == runListeners(listeners, syntheticEvent, caller, method, i + 1)
         IN [rest EXCEPT !.invoked = <<listeners[i]>> \o @]

DispatchCall(collected, caller, method, threw) ==
    [fn |-> "dispatchEvent", collected |-> collected, caller |-> caller,
     method |-> method, threw |-> threw]

\* a native event reaches dispatchEvent while the handler at position caller
\* of the collected ones calls method on its argument
DispatchCalling(type, target, caller, method) ==
    /\ bcPc = "done"
    /\ <<type, "dispatchEvent">> \in doms[Container].listeners
    /\ target \in Attached(doms, Container)
    /\ LET listeners == accumulateListeners(bcFibers, reactEventNameOf(type),
                                            doms[target].internalFiber)
           r == runListeners(listeners, SyntheticEvent(NativeEventKeys),
                             caller, method, 1)
       IN /\ caller <= Len(listeners)
          /\ invoked' = r.invoked
          /\ lastCall' = DispatchCall(listeners, caller, method, r.threw)
    /\ lastEvent' = [type |-> type, target |-> target]
    /\ UNCHANGED <<bcFibers, bcQueues, bcInstances, bcUpdates, workInProgress,
                   rootCurrent, bcPc, doms, hostLog, bcHist, didactOnly>>

NextDispatch ==
    \/ BeginStep
    \/ CompleteStep
    \/ CommitRoot
    \/ \E type \in EventTypes : \E target \in 1..Len(doms) :
          \E caller \in 1..2 : \E method \in {"", "preventDefault", "stopPropagation"} :
             DispatchCalling(type, target, caller, method)

SpecDispatch == InitBC /\ [][NextDispatch]_vars

\* ------------------------------------------------------------------ C30
\* C30: whatever a handler calls on the synthetic event, preventDefault and
\* stopPropagation included, dispatchEvent does not throw and every handler
\* it has collected runs, in the order of the collection.
C30_StubsAreNoOps ==
    (bcPc = "done" /\ lastEvent.type # "") =>
        /\ ~lastCall.threw
        /\ invoked = lastCall.collected

\* ------------------------------------------------------------------ C31
\* The nearest host fibers at and after fiber on its sibling chain, in
\* document order: a HostComponent or HostText fiber stands for itself, any
\* other fiber for the nearest host fibers below it.
RECURSIVE NearestHostsFrom(_, _)
NearestHostsFrom(F, fiber) ==
    IF fiber = NULL THEN <<>>
    ELSE (IF F[fiber].tag = HostComponent \/ F[fiber].tag = HostText
          THEN <<fiber>>
          ELSE NearestHostsFrom(F, F[fiber].child))
         \o NearestHostsFrom(F, F[fiber].sibling)

\* the nearest host descendants of fiber
NearestHosts(F, fiber) == NearestHostsFrom(F, F[fiber].child)

\* the host nodes of a sequence of fibers
HostNodesOf(F, fs) == [i \in 1..Len(fs) |-> F[fs[i]].stateNode.id]

\* the state of a host node on which setInitialProps(dom, props) has run
PropsApplied(node, props) ==
    /\ node.attrs = props.attrs
    /\ node.style = (IF props.hasStyle THEN props.style ELSE NoStyle)
    /\ node.text = (IF props.children.kind \in {"string", "number"}
                    THEN props.children.text ELSE "")

\* C31: after completeWork on a HostComponent fiber n, n.stateNode is a host
\* node h created by that call (of n's type, the host node of no other
\* fiber) with h.internalFiber = n; the children of h are the host nodes of
\* the nearest HostComponent/HostText descendants of n, in order, components
\* skipped, and no host node is the child of two nodes or twice the child of
\* one; n's pendingProps have been applied to h.
C31_CompletedHost ==
    \A f \in 1..Len(bcFibers) :
        (bcFibers[f].tag = HostComponent /\ InSeq(bcHist.completed, f)) =>
            LET fb == bcFibers[f]
                h  == fb.stateNode.id
            IN /\ fb.stateNode.kind = "dom"
               /\ \E i \in 1..Len(hostLog) :
                     hostLog[i] = HostCall("create", h, NULL, "", fb.type)
               /\ \A g \in 1..Len(bcFibers) :
                     bcFibers[g].stateNode = fb.stateNode => g = f
               /\ doms[h].internalFiber = f
               /\ bcFibers[doms[h].internalFiber].stateNode.id = h
               /\ doms[h].kids = HostNodesOf(bcFibers, NearestHosts(bcFibers, f))
               /\ \A i, j \in 1..Len(doms[h].kids) :
                     doms[h].kids[i] = doms[h].kids[j] => i = j
               /\ \A d \in 1..Len(doms) :
                     (d # h /\ d # Container) =>
                        \A k \in SeqToSet(doms[h].kids) : ~InSeq(doms[d].kids, k)
               /\ PropsApplied(doms[h], fb.pendingProps)

\* the div of <div onClick onMouseDown><Inner/></div> is completed: its host
\* node holds the span that Inner renders and the two handler properties
C31_Witness ==
    \E f \in 1..Len(bcFibers) :
        /\ bcFibers[f].tag = HostComponent
        /\ InSeq(bcHist.completed, f)
        /\ bcFibers[f].child # NULL
        /\ bcFibers[bcFibers[f].child].tag = FunctionComponent
        /\ Len(doms[bcFibers[f].stateNode.id].kids) = 1
        /\ doms[bcFibers[f].stateNode.id].attrs["onClick"] # Absent

\* ------------------------------------------------------------------ C32
\* the tags for which the switch of beginWork has a case
BeginWorkTags == {HostRoot, HostComponent, HostText, FunctionComponent,
                  ClassComponent}

\* the cursor of renderRootSync is on a fiber whose tag has no case
OnUnknownTag ==
    /\ workInProgress # NULL
    /\ bcFibers[workInProgress].tag \notin BeginWorkTags

\* C32: a tag without a case is a terminal no-op.  The begin step on such a
\* fiber creates no fiber, leaves its child null and every link as it was
\* (renderRootSync copies pendingProps to memoizedProps), returns no next
\* unit (the walk turns to the complete step of the same fiber) and does not
\* throw; the complete step on it creates no host node, changes no fiber and
\* no host node, does not throw, and the walk goes on with the sibling of the
\* fiber, or with its parent when it has none.
C32_UnknownTag ==
    [][ /\ (bcPc = "begin" /\ OnUnknownTag) =>
              /\ bcFibers' = [bcFibers EXCEPT ![workInProgress].memoizedProps =
                                                 bcFibers[workInProgress].pendingProps]
              /\ bcFibers'[workInProgress].child = NULL
              /\ bcPc' = "complete"
              /\ workInProgress' = workInProgress
              /\ doms' = doms /\ hostLog' = hostLog
        /\ (bcPc = "complete" /\ OnUnknownTag) =>
              /\ bcFibers' = bcFibers
              /\ doms' = doms /\ hostLog' = hostLog
              /\ bcFibers[workInProgress].stateNode = NoStateNode
              /\ bcPc' # "crashed"
              /\ workInProgress' =
                    (IF bcFibers[workInProgress].sibling # NULL
                     THEN bcFibers[workInProgress].sibling
                     ELSE bcFibers[workInProgress].return)
              /\ bcPc' = (IF bcFibers[workInProgress].sibling # NULL THEN "begin"
                          ELSE IF bcFibers[workInProgress].return = NULL
                          THEN "commit" ELSE "complete")
      ]_vars

\* a fiber with the null tag has been begun and completed and the walk has
\* gone on to its parent and reached the end of the render phase
C32_Witness ==
    \E f \in 1..Len(bcFibers) :
        /\ bcFibers[f].tag = NoTag
        /\ InSeq(bcHist.begun, f)
        /\ InSeq(bcHist.completed, f)
        /\ InSeq(bcHist.completed, bcFibers[f].return)
        /\ bcPc = "commit"

\* ------------------------------------------------------------------ C33
\* the child description beginWork resolves for a fiber: props.children of
\* the root and of a host fiber (none when it is a text), what a component
\* renders, none for a text fiber and for a tag without a case
ChildDescription(fb) ==
    CASE fb.tag = HostRoot -> fb.pendingProps.children
      [] fb.tag = HostComponent ->
            IF fb.pendingProps.children.kind \in {"string", "number"}
            THEN ChildNull ELSE fb.pendingProps.children
      [] fb.tag = FunctionComponent ->
            callFunctionComponent(fb.type, fb.pendingProps)
      [] fb.tag = ClassComponent -> ChildElement(ElClassResult)
      [] OTHER -> ChildNull

\* the fibers whose return is fiber
ReturningTo(F, fiber) == {g \in 1..Len(F) : F[g].return = fiber}

\* Shape of the fibers of the begin/complete renderer: apart from the root
\* pair no fiber has a sibling or an alternate, and the fibers returning to
\* a fiber are its one child, so that the work tree is a chain from the root
ChainShape(F) ==
    /\ \A f \in 1..Len(F) :
          /\ f \notin {rootCurrent, F[rootCurrent].alternate} =>
                /\ F[f].sibling = NULL
                /\ F[f].alternate = NULL
                /\ F[f].return # NULL
          /\ ReturningTo(F, f) \subseteq {F[f].child}
          /\ F[f].child # NULL => F[F[f].child].return = f
    /\ SeqToSet(PreOrderFrom(F, F[rootCurrent].alternate)) = 1..Len(F) \ {rootCurrent}
    /\ Len(PreOrderFrom(F, F[rootCurrent].alternate)) = Len(F) - 1

\* C33: a begin step on a fiber with a present child description creates
\* exactly one fiber c, with c.return the fiber and fiber.child = c, and one
\* with an absent description creates none and leaves fiber.child null; at
\* every point of renderRootSync every fiber but the root has sibling = null
\* and alternate = null and the work tree is a single chain; beginWork is
\* called with a non-null current for the root only, never for a class
\* component.
C33_ChainShape ==
    [][ /\ ChainShape(bcFibers) /\ ChainShape(bcFibers')
        /\ (bcPc = "begin" /\ workInProgress # NULL) =>
              LET fb == bcFibers[workInProgress]
                  c  == Len(bcFibers) + 1
              IN /\ fb.alternate # NULL => workInProgress = WorkRoot
                 /\ fb.tag = ClassComponent => fb.alternate = NULL
                 /\ bcPc' # "crashed"
                 /\ IF isTruthy(ChildDescription(fb))
                    THEN /\ Len(bcFibers') = c
                         /\ bcFibers'[c].return = workInProgress
                         /\ bcFibers'[workInProgress].child = c
                         /\ workInProgress' = c
                    ELSE /\ Len(bcFibers') = Len(bcFibers)
                         /\ bcFibers'[workInProgress].child = NULL
                         /\ workInProgress' = workInProgress
      ]_vars

\* the walk of <section><div><p>7</p></div></section> is over: three begin
\* steps created a child each, the fourth found a text and created none
C33_Witness ==
    /\ bcPc = "commit"
    /\ Len(bcFibers) = 5
    /\ \A f \in 2..4 : bcFibers[f].child = f + 1
    /\ bcFibers[5].child = NULL
    /\ bcFibers[5].tag = HostComponent
    /\ bcFibers[5].pendingProps.children.kind = "number"

\* ------------------------------------------------------------------ C34
\* the child description of the fiber is an array of two or more
HasArrayChildren(fb) ==
    /\ ChildDescription(fb).kind = "array"
    /\ Len(ChildDescription(fb).els) >= 2

\* C34: when the child description of a fiber is an array of two or more
\* descriptions, beginWork gives the fiber a single child, whose tag is the
\* null tag and whose type, props and key are undefined, and which never
\* gets a child or a host node; no description of the array gets a fiber or
\* a host node; the host node of the parent is created with no children;
\* nothing throws.
C34_ArrayChildren ==
    \A f \in 1..Len(bcFibers) :
        (HasArrayChildren(bcFibers[f]) /\ InSeq(bcHist.begun, f)) =>
            LET fb  == bcFibers[f]
                c   == fb.child
                els == ChildDescription(fb).els
            IN /\ bcPc # "crashed"
               /\ c # NULL
               /\ ReturningTo(bcFibers, f) = {c}
               /\ bcFibers[c].tag = NoTag
               /\ bcFibers[c].pendingProps = PropsUndefined
               /\ bcFibers[c].type = "undefined"
               /\ bcFibers[c].key = "undefined"
               /\ bcFibers[c].child = NULL
               /\ bcFibers[c].sibling = NULL
               /\ bcFibers[c].stateNode = NoStateNode
               /\ \A i \in 1..Len(els) :
                     /\ \A g \in 1..Len(bcFibers) :
                           /\ bcFibers[g].type # els[i].type
                           /\ bcFibers[g].pendingProps # els[i].props
                     /\ \A d \in 1..Len(doms) : doms[d].type # els[i].type
               /\ (fb.tag = HostComponent /\ InSeq(bcHist.completed, f)) =>
                     /\ fb.stateNode.kind = "dom"
                     /\ doms[fb.stateNode.id].kids = <<>>
                     /\ doms[fb.stateNode.id].text = ""

\* <ul id="list">{[<li>one</li>, <li>two</li>]}</ul> has been rendered and
\* committed: the ul node is in the container, without children
C34_Witness ==
    \E f \in 1..Len(bcFibers) :
        /\ HasArrayChildren(bcFibers[f])
        /\ InSeq(bcHist.completed, f)
        /\ InSeq(bcHist.completed, bcFibers[f].child)
        /\ bcPc = "done"
        /\ doms[Container].kids = << bcFibers[f].stateNode.id >>

\* ======================================================== appendChildren
\* appendChildren(dom, workInProgress) of src/src/dom.js on work subtrees
\* with siblings, which completeWork would hand to it if beginWork linked
\* more than one child.

\* number of fibers of the subtree, workInProgress included
MaxFibers == 4

\* the tags of the fibers below workInProgress
AppendTags == {HostComponent, HostText, FunctionComponent}

MinOf(S) == CHOOSE x \in S : \A y \in S : x <= y

\* A work subtree of n fibers.  Fiber 1 is workInProgress, a HostComponent;
\* parent[i] < i is the parent of fiber i and the children of a fiber are in
\* index order, with child, sibling and return set accordingly.  Every fiber
\* below workInProgress has been completed: a host fiber has its host node,
\* which holds the host nodes of its own nearest host descendants.  The last
\* host node is the one completeWork has just created for workInProgress.
AppendTree(n, parent, tags) ==
    LET isHost(i) == i > 1 /\ tags[i] \in {HostComponent, HostText}
        domOf(i) == 1 + Cardinality({k \in 2..i : isHost(k)})
        kidsOf(i) == {j \in 2..n : parent[j] = i}
        later(i) == {j \in 2..n : j > i /\ parent[j] = parent[i]}
        tagOf(i) == IF i = 1 THEN HostComponent ELSE tags[i]
        typeOf(i) == CASE tagOf(i) = HostComponent -> "div"
                       [] tagOf(i) = HostText -> "null"
                       [] OTHER -> "Empty"
        propsOf(i) == IF tagOf(i) = HostText THEN PropsText("t")
                      ELSE ReactProps(NoProps, FALSE, NoStyle, NoChild)
        F == [i \in 1..n |->
                [FiberNode(tagOf(i), propsOf(i), "null", i) EXCEPT
                    !.type = typeOf(i),
                    !.memoizedProps = propsOf(i),
                    !.return = IF i = 1 THEN NULL ELSE parent[i],
                    !.child = IF kidsOf(i) = {} THEN NULL ELSE MinOf(kidsOf(i)),
                    !.sibling = IF i = 1 \/ later(i) = {} THEN NULL
                                ELSE MinOf(later(i)),
                    !.stateNode = IF isHost(i)
                                  THEN [kind |-> "dom", id |-> domOf(i)]
                                  ELSE NoStateNode]]
        hosts == {i \in 2..n : isHost(i)}
        fiberOf(d) == CHOOSE i \in hosts : domOf(i) = d
        instance == Cardinality(hosts) + 2
    IN [fibers |-> F,
        queues |-> [i \in 1..n |-> [pending |-> NULL]],
        instance |-> instance,
        doms |-> [d \in 1..instance |->
                    IF d = 1 THEN NewDom("container")
                    ELSE IF d = instance THEN NewDom("div")
                    ELSE IF tagOf(fiberOf(d)) = HostText
                    THEN [NewDom("#text") EXCEPT !.text = "t"]
                    ELSE [NewDom("div") EXCEPT
                            !.internalFiber = fiberOf(d),
                            !.kids = [k \in 1..Len(NearestHostsFrom(F, F[fiberOf(d)].child)) |->
                                        domOf(NearestHostsFrom(F, F[fiberOf(d)].child)[k])]]]]

\* the links are those of a tree: a parent comes before its children and a
\* text fiber has no child
WellFormed(n, parent, tags) ==
    \A i \in 2..n :
        /\ parent[i] < i
        /\ parent[i] > 1 => tags[parent[i]] # HostText

AppendCall(dom, node, done, err) ==
    [fn |-> "appendChildren", dom |-> dom, node |-> node, done |-> done,
     err |-> err]

InitAppend ==
    /\ DidactOff
    /\ bcInstances = <<>>
    /\ bcUpdates = <<>>
    /\ rootCurrent = NULL
    /\ bcPc = "append"
    /\ invoked = <<>>
    /\ lastEvent = NoEvent
    /\ bcHist = BCHist0
    /\ hostLog = <<>>
    /\ workInProgress = 1
    /\ \E n \in 2..MaxFibers :
          \E parent \in [2..n -> 1..(n - 1)] : \E tags \in [2..n -> AppendTags] :
             /\ WellFormed(n, parent, tags)
             /\ LET t == AppendTree(n, parent, tags)
                IN /\ bcFibers = t.fibers
                   /\ bcQueues = t.queues
                   /\ doms = t.doms
                   /\ lastCall = AppendCall(t.instance, 1, FALSE, FALSE)

\* appendChildren(instance, workInProgress)
CallAppendChildren ==
    /\ bcPc = "append"
    /\ ~lastCall.done
    /\ LET H == appendChildren(HostState(doms, hostLog), bcFibers, lastCall.dom,
                               lastCall.node)
       IN /\ doms' = H.doms
          /\ hostLog' = H.log
          /\ lastCall' = [lastCall EXCEPT !.done = TRUE, !.err = H.err]
    /\ UNCHANGED <<bcFibers, bcQueues, bcInstances, bcUpdates, workInProgress,
                   rootCurrent, bcPc, invoked, lastEvent, bcHist, didactOnly>>

NextAppend == CallAppendChildren

SpecAppend == InitAppend /\ [][NextAppend]_vars

\* ------------------------------------------------------------------ C35
\* C35: for every well-formed work subtree with siblings, after
\* appendChildren(dom, node) the children of dom are the host nodes of the
\* nearest HostComponent/HostText descendants of node, in document order,
\* each appended by exactly one appendChild call and nothing else appended,
\* the host fibers that follow a component without host node below it
\* included; the call does not throw.
C35_AppendsAll ==
    (bcPc = "append" /\ lastCall.done) =>
        LET expected == HostNodesOf(bcFibers, NearestHosts(bcFibers, lastCall.node))
        IN /\ ~lastCall.err
           /\ doms[lastCall.dom].kids = expected
           /\ hostLog = [i \in 1..Len(expected) |->
                            HostCall("appendChild", lastCall.dom, expected[i], "", "")]

====
